---- MODULE Spec2Model ----
(***************************************************************************)
(* Model of the reconciliation and scoring core of seo_analytics_mcp:      *)
(* core/normalization.py, core/scoring.py and core/analysis.py.            *)
(*                                                                         *)
(* Every function of the core is pure, so each specification below draws   *)
(* the arguments of one call chain in Init and has one action per call.    *)
(*                                                                         *)
(* A Python str is a sequence of one-character strings.  A Python float is *)
(* a rational <<n, d>> in lowest terms with d > 0.  The arithmetic of the  *)
(* aggregators rounds as IEEE 754 does (to nearest, ties to even) to       *)
(* float_bits bits of significand when float_bits is set, and keeps every  *)
(* bit when it is None: binary64 has 53 bits, more than the integers of    *)
(* the model checker carry.  None is the value None below.  A dict is a    *)
(* function whose DOMAIN is the set of keys that are present.              *)
(***************************************************************************)
EXTENDS Integers, Sequences, FiniteSets, TLC

VARIABLES
    pc,             \* position of the call chain of the running specification
    value,          \* normalize_url: the raw URL string
    base_url,       \* normalize_url and the aggregators: base_url (<<>> is None)
    drop_query,     \* normalize_url: flag
    drop_fragment,  \* normalize_url: flag
    remove_www,     \* normalize_url: flag
    url_once,       \* normalize_url(value)
    url_twice,      \* normalize_url(normalize_url(value))
    rows,           \* the aggregators: the raw row batch
    dimensions,     \* the aggregators: dimensions / url_dimension_candidates
    pages,          \* the aggregators: the returned mapping
    float_bits,     \* the aggregators: bits of a float's significand, or None
    settings,       \* the Settings object
    include_previous_period,  \* _fetch_page_data: flag
    max_rows,       \* _fetch_page_data: the most rows a source is asked for
    gsc_current,    \* _fetch_page_data: the four aggregates
    ga4_current,
    gsc_previous,
    ga4_previous,
    merged_pages,   \* merge_page_metrics(...)
    max_items,      \* generate_action_items: max_items
    items,          \* generate_action_items(...)
    priorities,     \* analytics_generate_action_items: priorities
    returned_items, \* analytics_generate_action_items: the items it returns
    record,         \* score_page: the merged record it is called with
    scored,         \* score_page(record, settings)
    top_n,          \* the report tools: top_n / top_n_unmatched as passed on
    report,         \* the report tools: what the report builder returned
    effects,        \* the calls of the last step: the objects each one touched
    _gsc_connector, \* server.py: the module-level handle (<<>> is None)
    _ga4_connector,
    instances,      \* the connector instances constructed so far
    outcome,        \* what the last _get_*_connector call returned or raised
    calls,          \* the number of _get_*_connector calls made
    page_size,      \* the paging loops: page_size
    start_row,      \* the paging loops: start_row (offset in run_report_all)
    all_rows,       \* the paging loops: all_rows
    row_count,      \* run_report_all: row_count (<<>> is None)
    requests,       \* the paging loops: the page requests issued, in order
    start_date,     \* current_and_previous_ranges: start_date (<<>> is None)
    end_date,       \* current_and_previous_ranges: end_date (<<>> is None)
    today,          \* date.today()
    lookback_days,  \* current_and_previous_ranges: lookback_days
    ranges          \* what current_and_previous_ranges returned

url_vars == <<value, drop_query, drop_fragment, remove_www, url_once, url_twice>>

agg_vars == <<rows, dimensions, pages, float_bits>>

report_vars == <<settings, include_previous_period, max_rows, gsc_current, ga4_current,
                 gsc_previous, ga4_previous, merged_pages, max_items, items,
                 priorities, returned_items>>

score_vars == <<record, scored>>

tool_vars == <<top_n, report, effects>>

conn_vars == <<_gsc_connector, _ga4_connector, instances, outcome, calls>>

page_vars == <<page_size, start_row, all_rows, row_count, requests>>

range_vars == <<start_date, end_date, today, lookback_days, ranges>>

vars == <<pc, base_url, url_vars, agg_vars, report_vars, score_vars, tool_vars,
          conn_vars, page_vars, range_vars>>

(***************************************************************************)
(* Python str operations                                                   *)
(***************************************************************************)
UpperLetters ==
    <<"A","B","C","D","E","F","G","H","I","J","K","L","M",
      "N","O","P","Q","R","S","T","U","V","W","X","Y","Z">>

LowerLetters ==
    <<"a","b","c","d","e","f","g","h","i","j","k","l","m",
      "n","o","p","q","r","s","t","u","v","w","x","y","z">>

Range(s) == {s[i] : i \in DOMAIN s}

SetMin(S) == CHOOSE m \in S : \A k \in S : m <= k

SetMax(S) == CHOOSE m \in S : \A k \in S : m >= k

\* str.isalpha() on an ASCII character
IsAlpha(c) == c \in Range(UpperLetters) \cup Range(LowerLetters)

\* str.lower() on one character
LowerChar(c) ==
    IF c \in Range(UpperLetters)
    THEN LowerLetters[CHOOSE i \in DOMAIN UpperLetters : UpperLetters[i] = c]
    ELSE c

RECURSIVE Lower(_)
\* str.lower()
Lower(s) == IF s = <<>> THEN <<>> ELSE <<LowerChar(Head(s))>> \o Lower(Tail(s))

\* s[i-1:] in Python terms: the suffix that starts at the 1-based index i
From(s, i) == SubSeq(s, i, Len(s))

\* str.startswith(p)
StartsWith(s, p) == Len(s) >= Len(p) /\ SubSeq(s, 1, Len(p)) = p

\* str.endswith(p)
EndsWith(s, p) == Len(s) >= Len(p) /\ From(s, Len(s) - Len(p) + 1) = p

\* str.find(c, start) + 1: the 1-based index of the first c at or after start, 0 when absent
Find(s, c, start) ==
    LET I == {i \in start..Len(s) : s[i] = c}
    IN IF I = {} THEN 0 ELSE SetMin(I)

\* str.lstrip(chars)
LStrip(s, chars) ==
    LET I == {i \in 1..Len(s) : s[i] \notin chars}
    IN IF I = {} THEN <<>> ELSE From(s, SetMin(I))

\* str.rstrip(chars)
RStrip(s, chars) ==
    LET I == {i \in 1..Len(s) : s[i] \notin chars}
    IN IF I = {} THEN <<>> ELSE SubSeq(s, 1, SetMax(I))

\* the characters str.strip() removes (ASCII whitespace)
Whitespace == {" ", "\t", "\n", "\r", "\f"}

\* str.strip()
Strip(s) == LStrip(RStrip(s, Whitespace), Whitespace)

\* str.replace(c, "") for every c of chars
Remove(s, chars) == SelectSeq(s, LAMBDA c : c \notin chars)

RECURSIVE Split(_, _)
\* str.split(c)
Split(s, c) ==
    LET i == Find(s, c, 1)
    IN IF i = 0 THEN <<s>>
       ELSE <<SubSeq(s, 1, i - 1)>> \o Split(From(s, i + 1), c)

RECURSIVE Join(_, _)
\* c.join(parts)
Join(parts, c) ==
    IF parts = <<>> THEN <<>>
    ELSE IF Len(parts) = 1 THEN parts[1]
    ELSE parts[1] \o <<c>> \o Join(Tail(parts), c)

\* characters in code point order, for the comparison of str
CodePointOrder ==
    <<"\t", "\n", "\f", "\r", " ", "#", "+", "-", ".", "/",
      "0","1","2","3","4","5","6","7","8","9", ":", ";", "?">>
    \o UpperLetters \o LowerLetters

Ord(c) == CHOOSE i \in DOMAIN CodePointOrder : CodePointOrder[i] = c

RECURSIVE StrLess(_, _)
\* a < b on str: lexicographic by code point
StrLess(a, b) ==
    IF b = <<>> THEN FALSE
    ELSE IF a = <<>> THEN TRUE
    ELSE IF Head(a) = Head(b) THEN StrLess(Tail(a), Tail(b))
    ELSE Ord(Head(a)) < Ord(Head(b))

(***************************************************************************)
(* urllib.parse, as normalize_url uses it (CPython 3.11).  The inputs of   *)
(* the model contain no ';', '[' or ']', so urlparse's params are always   *)
(* empty and the IPv6 checks of urlsplit never raise.                      *)
(***************************************************************************)
S_http == <<"h","t","t","p">>

S_https == <<"h","t","t","p","s">>

S_ftp == <<"f","t","p">>

\* the members of urllib.parse.uses_netloc and uses_relative the model can produce
uses_netloc == {<<>>, S_ftp, S_http, S_https}

uses_relative == {<<>>, S_ftp, S_http, S_https}

scheme_chars ==
    Range(UpperLetters) \cup Range(LowerLetters)
    \cup {"0","1","2","3","4","5","6","7","8","9"} \cup {"+", "-", "."}

\* _WHATWG_C0_CONTROL_OR_SPACE, restricted to the characters of the model
C0ControlOrSpace == {" ", "\t", "\n", "\r", "\f"}

\* _UNSAFE_URL_BYTES_TO_REMOVE
UnsafeUrlBytes == {"\t", "\r", "\n"}

\* urlsplit, last step: the query is cut off at the first "?"
urlsplit_query(scheme, netloc, url4, fragment) ==
    LET q == Find(url4, "?", 1)
    IN [scheme |-> scheme, netloc |-> netloc,
        path |-> IF q > 0 THEN SubSeq(url4, 1, q - 1) ELSE url4,
        query |-> IF q > 0 THEN From(url4, q + 1) ELSE <<>>,
        fragment |-> fragment]

\* urlsplit: the fragment is cut off at the first "#"
urlsplit_fragment(scheme, netloc, url3) ==
    LET h == Find(url3, "#", 1)
    IN urlsplit_query(scheme, netloc,
                      IF h > 0 THEN SubSeq(url3, 1, h - 1) ELSE url3,
                      IF h > 0 THEN From(url3, h + 1) ELSE <<>>)

\* urlsplit: after "//" the netloc runs to the first of "/", "?", "#"
urlsplit_netloc(scheme, url2) ==
    LET D == {k \in 3..Len(url2) : url2[k] \in {"/", "?", "#"}}
        delim == IF D = {} THEN Len(url2) + 1 ELSE SetMin(D)
    IN IF StartsWith(url2, <<"/", "/">>)
       THEN urlsplit_fragment(scheme, SubSeq(url2, 3, delim - 1), From(url2, delim))
       ELSE urlsplit_fragment(scheme, <<>>, url2)

\* urlsplit: a leading run of scheme characters before ":" is the scheme
urlsplit_scheme(url1, scheme0) ==
    LET i == Find(url1, ":", 1)
    IN IF /\ i > 1
          /\ IsAlpha(url1[1])
          /\ \A k \in 1..(i - 1) : url1[k] \in scheme_chars
       THEN urlsplit_netloc(Lower(SubSeq(url1, 1, i - 1)), From(url1, i + 1))
       ELSE urlsplit_netloc(scheme0, url1)

\* urlsplit(url, scheme)
urlsplit(url0, scheme0) ==
    urlsplit_scheme(Remove(LStrip(url0, C0ControlOrSpace), UnsafeUrlBytes), scheme0)

\* urlunsplit((scheme, netloc, url, query, fragment))
urlunsplit(scheme, netloc, url0, query, fragment) ==
    LET url1 == IF \/ netloc # <<>>
                   \/ (scheme # <<>> /\ scheme \in uses_netloc
                       /\ ~StartsWith(url0, <<"/", "/">>))
                THEN <<"/", "/">> \o netloc
                     \o (IF url0 # <<>> /\ Head(url0) # "/"
                         THEN <<"/">> \o url0 ELSE url0)
                ELSE url0
        url2 == IF scheme # <<>> THEN scheme \o <<":">> \o url1 ELSE url1
        url3 == IF query # <<>> THEN url2 \o <<"?">> \o query ELSE url2
    IN IF fragment # <<>> THEN url3 \o <<"#">> \o fragment ELSE url3

RECURSIVE ResolveSegments(_, _)
\* the loop of urljoin over the path segments: '..' pops, '.' is skipped
ResolveSegments(segments, resolved) ==
    IF segments = <<>> THEN resolved
    ELSE LET seg == Head(segments)
         IN IF seg = <<".", ".">>
            THEN ResolveSegments(Tail(segments),
                     IF resolved = <<>> THEN <<>>
                     ELSE SubSeq(resolved, 1, Len(resolved) - 1))
            ELSE IF seg = <<".">>
            THEN ResolveSegments(Tail(segments), resolved)
            ELSE ResolveSegments(Tail(segments), Append(resolved, seg))

\* urljoin: the resolved segments are joined into the path of the result
urljoin_resolved(u, netloc, segments, resolved0) ==
    LET path0 == Join(IF segments[Len(segments)] \in {<<".">>, <<".", ".">>}
                      THEN Append(resolved0, <<>>) ELSE resolved0, "/")
    IN urlunsplit(u.scheme, netloc,
                  IF path0 = <<>> THEN <<"/">> ELSE path0,
                  u.query, u.fragment)

\* urljoin: empty segments between the first and the last are dropped
urljoin_filter(joined) ==
    IF Len(joined) <= 2 THEN joined
    ELSE <<joined[1]>>
         \o SelectSeq(SubSeq(joined, 2, Len(joined) - 1), LAMBDA seg : seg # <<>>)
         \o <<joined[Len(joined)]>>

\* urljoin: the base path without its last segment
urljoin_base_parts(bp) ==
    IF bp[Len(bp)] # <<>> THEN SubSeq(bp, 1, Len(bp) - 1) ELSE bp

\* urljoin: a relative path is resolved against the base path
urljoin_segments(u, netloc, segments) ==
    urljoin_resolved(u, netloc, segments, ResolveSegments(segments, <<>>))

\* urljoin, once base and url are split
urljoin_parts(b, u, url) ==
    IF u.scheme # b.scheme \/ u.scheme \notin uses_relative THEN url
    ELSE IF u.scheme \in uses_netloc /\ u.netloc # <<>>
    THEN urlunsplit(u.scheme, u.netloc, u.path, u.query, u.fragment)
    ELSE IF u.path = <<>>
    THEN urlunsplit(u.scheme,
                    IF u.scheme \in uses_netloc THEN b.netloc ELSE u.netloc,
                    b.path,
                    IF u.query = <<>> THEN b.query ELSE u.query, u.fragment)
    ELSE urljoin_segments(u,
             IF u.scheme \in uses_netloc THEN b.netloc ELSE u.netloc,
             IF Head(u.path) = "/" THEN Split(u.path, "/")
             ELSE urljoin_filter(urljoin_base_parts(Split(b.path, "/"))
                                 \o Split(u.path, "/")))

\* urljoin: url is split with the scheme of base as its default
urljoin_split(b, url) == urljoin_parts(b, urlsplit(url, b.scheme), url)

\* urljoin(base, url)
urljoin(base, url) ==
    IF base = <<>> THEN url
    ELSE IF url = <<>> THEN base
    ELSE urljoin_split(urlsplit(base, <<>>), url)

(***************************************************************************)
(* core/normalization.py: normalize_url                                    *)
(***************************************************************************)
P_http == <<"h","t","t","p",":","/","/">>

P_https == <<"h","t","t","p","s",":","/","/">>

P_www == <<"w","w","w",".">>

\* normalize_path with a bug: every trailing "/" is stripped, not one
normalize_path_strip_all(p) ==
    LET path == IF p = <<>> THEN <<"/">> ELSE p
    IN IF Len(path) > 1 /\ path[Len(path)] = "/"
       THEN (IF RStrip(path, {"/"}) = <<>> THEN <<"/">> ELSE RStrip(path, {"/"}))
       ELSE path

\* line 48-50: an empty path becomes "/", a longer path loses one trailing "/"
normalize_path(p) ==
    LET path == IF p = <<>> THEN <<"/">> ELSE p
    IN IF Len(path) > 1 /\ path[Len(path)] = "/"
       THEN SubSeq(path, 1, Len(path) - 1)
       ELSE path

\* line 44-46: the netloc in lower case, without a leading "www." on request
normalize_netloc(netloc0, rw) ==
    IF rw /\ StartsWith(netloc0, P_www) THEN From(netloc0, 5) ELSE netloc0

\* line 43, 55-58: a URL without host is returned as its bare path
normalize_unsplit(scheme, netloc, path, query, fragment) ==
    IF netloc = <<>> THEN path
    ELSE urlunsplit(IF scheme = <<>> THEN S_https ELSE scheme,
                    netloc, path, query, fragment)

\* line 43-58: the parts of the split URL are normalised and put together
normalize_parts(parts, dq, df, rw) ==
    normalize_unsplit(Lower(parts.scheme),
                      normalize_netloc(Lower(parts.netloc), rw),
                      normalize_path(parts.path),
                      IF dq THEN <<>> ELSE parts.query,
                      IF df THEN <<>> ELSE parts.fragment)

\* line 38-39: a text without http(s) prefix is joined to base_url
normalize_text(text0, base) ==
    IF ~StartsWith(text0, P_http) /\ ~StartsWith(text0, P_https) /\ base # <<>>
    THEN urljoin(RStrip(base, {"/"}) \o <<"/">>, LStrip(text0, {"/"}))
    ELSE text0

normalize_stripped(text0, base, dq, df, rw) ==
    IF text0 = <<>> THEN text0
    ELSE normalize_parts(urlsplit(normalize_text(text0, base), <<>>), dq, df, rw)

normalize_url(val, base, dq, df, rw) ==
    normalize_stripped(Strip(val), base, dq, df, rw)

(***************************************************************************)
(* Python float as an exact rational <<n, d>>, d > 0, in lowest terms      *)
(***************************************************************************)
None == <<>>

Abs(x) == IF x < 0 THEN -x ELSE x

RECURSIVE GCD(_, _)
GCD(a, b) == IF b = 0 THEN a ELSE GCD(b, a % b)

Rat(n, d) ==
    LET g == GCD(Abs(n), Abs(d))
        s == IF d < 0 THEN -1 ELSE 1
    IN <<(s * n) \div g, (s * d) \div g>>

R(n) == <<n, 1>>

Zero == <<0, 1>>

RAdd(a, b) ==
    LET l == (a[2] \div GCD(a[2], b[2])) * b[2]
    IN Rat(a[1] * (l \div a[2]) + b[1] * (l \div b[2]), l)

RNeg(a) == <<-a[1], a[2]>>

RSub(a, b) == RAdd(a, RNeg(b))

RMul(a, b) ==
    LET g1 == GCD(Abs(a[1]), b[2])
        g2 == GCD(Abs(b[1]), a[2])
    IN Rat((a[1] \div g1) * (b[1] \div g2), (a[2] \div g2) * (b[2] \div g1))

\* a / b, b # 0
RDiv(a, b) == RMul(a, Rat(b[2], b[1]))

RLt(a, b) == a[1] * b[2] < b[1] * a[2]

RLe(a, b) == a[1] * b[2] <= b[1] * a[2]

RMin(a, b) == IF RLe(a, b) THEN a ELSE b

RMax(a, b) == IF RLe(a, b) THEN b ELSE a

RAbs(a) == <<Abs(a[1]), a[2]>>

RECURSIVE RSum(_)
\* the sum of a sequence of rationals
RSum(q) == IF q = <<>> THEN Zero ELSE RAdd(Head(q), RSum(Tail(q)))

(***************************************************************************)
(* Float arithmetic: the exact result of an operation, rounded to          *)
(* float_bits bits of significand, to nearest and a tie to the even one    *)
(***************************************************************************)
RECURSIVE Pow2(_)
Pow2(k) == IF k = 0 THEN 1 ELSE 2 * Pow2(k - 1)

RECURSIVE BitLength(_)
BitLength(q) == IF q = 0 THEN 0 ELSE 1 + BitLength(q \div 2)

\* the integer q of more than p bits, rounded to p bits; sticky: a fraction follows
RoundShifted(m0, rem, unit, sticky) ==
    IF \/ 2 * rem > unit
       \/ 2 * rem = unit /\ (sticky \/ m0 % 2 = 1)
    THEN <<(m0 + 1) * unit, 1>>
    ELSE <<m0 * unit, 1>>

RoundInteger(q, unit, sticky) == RoundShifted(q \div unit, q % unit, unit, sticky)

RECURSIVE RoundDigits(_, _, _, _, _)
\* binary long division of r / d behind the k fraction bits of q, until q has p bits
RoundDigits(q, r, d, k, p) ==
    IF r = 0 THEN Rat(q, Pow2(k))
    ELSE IF q < Pow2(p - 1)
    THEN RoundDigits(2 * q + (IF 2 * r >= d THEN 1 ELSE 0), (2 * r) % d, d, k + 1, p)
    ELSE IF 2 * r > d \/ (2 * r = d /\ q % 2 = 1)
    THEN Rat(q + 1, Pow2(k))
    ELSE Rat(q, Pow2(k))

\* a / d >= 0 rounded to p bits
RoundMagnitude(a, d, p) ==
    IF a \div d >= Pow2(p)
    THEN RoundInteger(a \div d, Pow2(BitLength(a \div d) - p), a % d # 0)
    ELSE RoundDigits(a \div d, a % d, d, 0, p)

Negate(neg, x) == IF neg THEN <<-x[1], x[2]>> ELSE x

\* the float nearest to the rational x
Fl(x) ==
    IF float_bits = None THEN x
    ELSE Negate(x[1] < 0, RoundMagnitude(Abs(x[1]), x[2], float_bits[1]))

FAdd(a, b) == Fl(RAdd(a, b))

FMul(a, b) == Fl(RMul(a, b))

FDiv(a, b) == Fl(RDiv(a, b))

(***************************************************************************)
(* Values of a raw row.  A metric value is a number <<"float", n, d>>, a   *)
(* string <<"str", chars>>, or None.                                       *)
(***************************************************************************)
Num(n, d) == <<"float", n, d>>

Str(chars) == <<"str", chars>>

IsNum(v) == Len(v) = 3

IsStr(v) == Len(v) = 2

\* dict.get(key), None when the key is absent
Get(row, key) == IF key \in DOMAIN row THEN row[key] ELSE None

DigitChars == <<"0","1","2","3","4","5","6","7","8","9">>

DigitVal(c) == (CHOOSE i \in DOMAIN DigitChars : DigitChars[i] = c) - 1

IsDigits(s) == \A i \in DOMAIN s : s[i] \in Range(DigitChars)

RECURSIVE DigitsToInt(_, _)
DigitsToInt(s, acc) ==
    IF s = <<>> THEN acc ELSE DigitsToInt(Tail(s), acc * 10 + DigitVal(Head(s)))

RECURSIVE Pow10(_)
Pow10(k) == IF k = 0 THEN 1 ELSE 10 * Pow10(k - 1)

\* float(str): the digits of a literal, once sign and point are found
ParseDigits(neg, ip, fp) ==
    IF IsDigits(ip) /\ IsDigits(fp) /\ Len(ip) + Len(fp) >= 1
    THEN Fl(Rat((IF neg THEN -1 ELSE 1) * DigitsToInt(ip \o fp, 0), Pow10(Len(fp))))
    ELSE None

\* float(str): the literal is cut at its decimal point
ParsePoint(neg, body, dot) ==
    IF dot = 0 THEN ParseDigits(neg, body, <<>>)
    ELSE ParseDigits(neg, SubSeq(body, 1, dot - 1), From(body, dot + 1))

\* float(str): the literal without its sign
ParseBody(neg, body) == ParsePoint(neg, body, Find(body, ".", 1))

\* float(str): an optional sign opens the literal
ParseSign(t) ==
    IF t # <<>> /\ Head(t) \in {"+", "-"} THEN ParseBody(Head(t) = "-", Tail(t))
    ELSE ParseBody(FALSE, t)

\* float(str): the decimal literals [sign] digits [. digits]; anything else of the
\* model's alphabet raises ValueError, modelled as None
ParseFloat(chars) == ParseSign(Strip(chars))

\* line 12-14: the value, or the default when float() raises
OrDefault(f, default) == IF f = None THEN default ELSE f

\* to_float(value, default)
to_float(v, default) ==
    IF v = None THEN default
    ELSE IF IsNum(v) THEN Fl(Rat(v[2], v[3]))
    ELSE OrDefault(ParseFloat(v[2]), default)

(***************************************************************************)
(* core/normalization.py: the two aggregators                              *)
(***************************************************************************)
\* _weighted_average with a bug: only a weight of exactly 0 falls back
_weighted_average_zero_only(sum_weighted, sum_weight, fallback) ==
    IF sum_weight = Zero THEN fallback ELSE FDiv(sum_weighted, sum_weight)

\* _weighted_average(sum_weighted, sum_weight, fallback)
_weighted_average(sum_weighted, sum_weight, fallback) ==
    IF RLe(sum_weight, Zero) THEN fallback ELSE FDiv(sum_weighted, sum_weight)

\* line 73-77: the 0-based position of the URL in a row's key tuple
gsc_page_index(dims) ==
    LET d == IF dims = <<>> THEN <<"page">> ELSE dims
        I == {i \in DOMAIN d : d[i] = "page"}
    IN IF I # {} THEN SetMin(I) - 1 ELSE 0

\* line 90-99: the normalized URL of a row, <<>> when the row is skipped
gsc_row_url(row, dims, base) ==
    LET keys == IF "keys" \in DOMAIN row THEN row["keys"] ELSE <<>>
        page_index == gsc_page_index(dims)
    IN IF keys = <<>> THEN <<>>
       ELSE IF page_index >= Len(keys) THEN <<>>
       ELSE normalize_url(keys[page_index + 1], base, TRUE, TRUE, FALSE)

\* line 79-87: the default factory of the bucket
gsc_new_item ==
    [gsc_clicks |-> Zero, gsc_impressions |-> Zero, gsc_ctr_weighted |-> Zero,
     gsc_position_weighted |-> Zero, gsc_rows |-> 0]

\* gsc_add_row with a bug: the ratios are accumulated without their weight
gsc_add_row_unweighted(item, row) ==
    LET impressions == to_float(Get(row, "impressions"), Zero)
    IN [gsc_clicks |-> FAdd(item.gsc_clicks, to_float(Get(row, "clicks"), Zero)),
        gsc_impressions |-> FAdd(item.gsc_impressions, impressions),
        gsc_ctr_weighted |->
            FAdd(item.gsc_ctr_weighted, to_float(Get(row, "ctr"), Zero)),
        gsc_position_weighted |->
            FAdd(item.gsc_position_weighted, to_float(Get(row, "position"), Zero)),
        gsc_rows |-> item.gsc_rows + 1]

\* line 106-111: the metrics of one row accumulated into its bucket item
gsc_add_values(item, clicks, impressions, ctr, position) ==
    [gsc_clicks |-> FAdd(item.gsc_clicks, clicks),
     gsc_impressions |-> FAdd(item.gsc_impressions, impressions),
     gsc_ctr_weighted |-> FAdd(item.gsc_ctr_weighted, FMul(ctr, impressions)),
     gsc_position_weighted |->
         FAdd(item.gsc_position_weighted, FMul(position, impressions)),
     gsc_rows |-> item.gsc_rows + 1]

\* line 101-104: the four metrics of a row, read with to_float
gsc_add_row(item, row) ==
    gsc_add_values(item,
                   to_float(Get(row, "clicks"), Zero),
                   to_float(Get(row, "impressions"), Zero),
                   to_float(Get(row, "ctr"), Zero),
                   to_float(Get(row, "position"), Zero))

\* line 97-111: a row without URL is skipped, any other row goes to the
\* bucket item of its URL
gsc_bucket_row(bucket, url, row) ==
    IF url = <<>> THEN bucket
    ELSE (url :> gsc_add_row(IF url \in DOMAIN bucket THEN bucket[url]
                             ELSE gsc_new_item, row)) @@ bucket

RECURSIVE gsc_accumulate(_, _, _, _)
\* line 89-111: the loop over the rows
gsc_accumulate(rs, dims, base, bucket) ==
    IF rs = <<>> THEN bucket
    ELSE gsc_accumulate(Tail(rs), dims, base,
             gsc_bucket_row(bucket, gsc_row_url(Head(rs), dims, base), Head(rs)))

\* line 113-118: the ratio metrics of one bucket item
gsc_finish(item) ==
    [gsc_clicks |-> item.gsc_clicks,
     gsc_impressions |-> item.gsc_impressions,
     gsc_rows |-> item.gsc_rows,
     gsc_ctr |-> _weighted_average(item.gsc_ctr_weighted, item.gsc_impressions, Zero),
     gsc_position |->
         _weighted_average(item.gsc_position_weighted, item.gsc_impressions, Zero)]

gsc_finish_all(bucket) == [url \in DOMAIN bucket |-> gsc_finish(bucket[url])]

normalize_gsc_rows_by_page(rs, dims, base) ==
    gsc_finish_all(gsc_accumulate(rs, dims, base, <<>>))

\* line 129-138: the default url_dimension_candidates
default_url_dimension_candidates ==
    <<"landingPagePlusQueryString", "landingPage", "fullPageUrl",
      "pageLocation", "pagePath">>

\* line 153-164: the normalized URL of a row, <<>> when the row is skipped
ga4_row_url(row, cands, base) ==
    LET c == IF cands = <<>> THEN default_url_dimension_candidates ELSE cands
        I == {i \in DOMAIN c : Get(row, c[i]) # None /\ Get(row, c[i]) # <<>>}
    IN IF I = {} THEN <<>>
       ELSE normalize_url(row[c[SetMin(I)]], base, TRUE, TRUE, FALSE)

\* line 140-150: the default factory of the bucket
ga4_new_item ==
    [ga4_sessions |-> Zero, ga4_engaged_sessions |-> Zero, ga4_conversions |-> Zero,
     ga4_total_users |-> Zero, ga4_screen_page_views |-> Zero,
     ga4_user_engagement_duration |-> Zero, ga4_rows |-> 0]

\* line 166-175: one row accumulated into its bucket item
ga4_add_row(item, row) ==
    [ga4_sessions |-> FAdd(item.ga4_sessions, to_float(Get(row, "sessions"), Zero)),
     ga4_engaged_sessions |->
         FAdd(item.ga4_engaged_sessions, to_float(Get(row, "engagedSessions"), Zero)),
     ga4_conversions |->
         FAdd(item.ga4_conversions, to_float(Get(row, "conversions"), Zero)),
     ga4_total_users |->
         FAdd(item.ga4_total_users, to_float(Get(row, "totalUsers"), Zero)),
     ga4_screen_page_views |->
         FAdd(item.ga4_screen_page_views, to_float(Get(row, "screenPageViews"), Zero)),
     ga4_user_engagement_duration |->
         FAdd(item.ga4_user_engagement_duration,
              to_float(Get(row, "userEngagementDuration"), Zero)),
     ga4_rows |-> item.ga4_rows + 1]

\* line 162-175: a row without URL is skipped, any other row goes to the
\* bucket item of its URL
ga4_bucket_row(bucket, url, row) ==
    IF url = <<>> THEN bucket
    ELSE (url :> ga4_add_row(IF url \in DOMAIN bucket THEN bucket[url]
                             ELSE ga4_new_item, row)) @@ bucket

RECURSIVE ga4_accumulate(_, _, _, _)
\* line 152-175: the loop over the rows
ga4_accumulate(rs, cands, base, bucket) ==
    IF rs = <<>> THEN bucket
    ELSE ga4_accumulate(Tail(rs), cands, base,
             ga4_bucket_row(bucket, ga4_row_url(Head(rs), cands, base), Head(rs)))

\* line 177-184: the derived rates of one bucket item
ga4_finish(item) ==
    [ga4_sessions |-> item.ga4_sessions,
     ga4_engaged_sessions |-> item.ga4_engaged_sessions,
     ga4_conversions |-> item.ga4_conversions,
     ga4_total_users |-> item.ga4_total_users,
     ga4_screen_page_views |-> item.ga4_screen_page_views,
     ga4_user_engagement_duration |-> item.ga4_user_engagement_duration,
     ga4_rows |-> item.ga4_rows,
     ga4_engagement_rate |->
         IF RLt(Zero, item.ga4_sessions)
         THEN FDiv(item.ga4_engaged_sessions, item.ga4_sessions) ELSE Zero,
     ga4_conversion_rate |->
         IF RLt(Zero, item.ga4_sessions)
         THEN FDiv(item.ga4_conversions, item.ga4_sessions) ELSE Zero]

ga4_finish_all(bucket) == [url \in DOMAIN bucket |-> ga4_finish(bucket[url])]

normalize_ga4_rows_by_page(rs, cands, base) ==
    ga4_finish_all(ga4_accumulate(rs, cands, base, <<>>))

(***************************************************************************)
(* core/analysis.py: merge_page_metrics                                    *)
(***************************************************************************)
\* dict.get(key, default)
DictGet(d, key, default) == IF key \in DOMAIN d THEN d[key] ELSE default

\* the empty dict
EmptyDict == <<>>

RECURSIVE SortedUrls(_)
\* sorted(S) for a set of str
SortedUrls(S) ==
    IF S = {} THEN <<>>
    ELSE LET m == CHOOSE u \in S : \A v \in S \ {u} : StrLess(u, v)
         IN <<m>> \o SortedUrls(S \ {m})

\* merge_urls with a bug: the URLs of the previous period are left out
merge_urls_current_only(gc, ac, gp, ap) ==
    SortedUrls(DOMAIN gc \cup DOMAIN ac)

\* line 22-27: the URL universe, sorted
merge_urls(gc, ac, gp, ap) ==
    SortedUrls(DOMAIN gc \cup DOMAIN ac \cup DOMAIN gp \cup DOMAIN ap)

\* merge_prev_fields with a bug: the previous fields are always written
merge_prev_fields_always(prev_g, prev_a) ==
    [gsc_prev_clicks |-> DictGet(prev_g, "gsc_clicks", Zero),
     gsc_prev_impressions |-> DictGet(prev_g, "gsc_impressions", Zero),
     ga4_prev_sessions |-> DictGet(prev_a, "ga4_sessions", Zero),
     ga4_prev_conversions |-> DictGet(prev_a, "ga4_conversions", Zero)]

\* line 41-46: the previous-period fields, written only for a non-empty dict
merge_prev_fields(prev_g, prev_a) ==
    (IF prev_g # EmptyDict
     THEN [gsc_prev_clicks |-> DictGet(prev_g, "gsc_clicks", Zero),
           gsc_prev_impressions |-> DictGet(prev_g, "gsc_impressions", Zero)]
     ELSE EmptyDict)
    @@
    (IF prev_a # EmptyDict
     THEN [ga4_prev_sessions |-> DictGet(prev_a, "ga4_sessions", Zero),
           ga4_prev_conversions |-> DictGet(prev_a, "ga4_conversions", Zero)]
     ELSE EmptyDict)

\* compute_delta_pct with a bug: a zero baseline yields 0 instead of None
compute_delta_pct_zero(current, previous) ==
    IF RLe(previous, Zero) THEN Zero
    ELSE RDiv(RSub(current, previous), previous)

\* compute_delta_pct(current, previous)
compute_delta_pct(current, previous) ==
    IF RLe(previous, Zero) THEN None
    ELSE RDiv(RSub(current, previous), previous)

\* line 48-63: the four delta fields of a row
merge_deltas(row) ==
    [gsc_clicks_delta_pct |->
         compute_delta_pct(DictGet(row, "gsc_clicks", Zero),
                           DictGet(row, "gsc_prev_clicks", Zero)),
     gsc_impressions_delta_pct |->
         compute_delta_pct(DictGet(row, "gsc_impressions", Zero),
                           DictGet(row, "gsc_prev_impressions", Zero)),
     ga4_sessions_delta_pct |->
         compute_delta_pct(DictGet(row, "ga4_sessions", Zero),
                           DictGet(row, "ga4_prev_sessions", Zero)),
     ga4_conversions_delta_pct |->
         compute_delta_pct(DictGet(row, "ga4_conversions", Zero),
                           DictGet(row, "ga4_prev_conversions", Zero))]

\* line 32-65: the merged record of one URL; dict.update lets the later dict win
merge_row(url, gc, ac, gp, ap) ==
    LET current_g == DictGet(gc, url, EmptyDict)
        current_a == DictGet(ac, url, EmptyDict)
        prev_g == DictGet(gp, url, EmptyDict)
        prev_a == DictGet(ap, url, EmptyDict)
        row0 == current_a @@ current_g @@ [url |-> url]
        row1 == merge_prev_fields(prev_g, prev_a) @@ row0
    IN merge_deltas(row1) @@ row1

\* merge_page_metrics(gsc_current, ga4_current, gsc_previous=, ga4_previous=);
\* None is passed as the empty dict it is replaced by (line 17-20)
merge_page_metrics(gc, ac, gp, ap) ==
    LET urls == merge_urls(gc, ac, gp, ap)
    IN [i \in DOMAIN urls |-> merge_row(urls[i], gc, ac, gp, ap)]

(***************************************************************************)
(* core/scoring.py                                                         *)
(***************************************************************************)
\* round(x, ndigits) with 10^ndigits = scale: to the nearest multiple of
\* 1/scale, a tie to the even one
Round(x, scale) ==
    LET n == x[1] * scale
        d == x[2]
        q == n \div d
        r == n % d
        m == IF 2 * r > d THEN q + 1
             ELSE IF 2 * r < d THEN q
             ELSE IF q % 2 = 0 THEN q ELSE q + 1
    IN Rat(m, scale)

\* round(log10(50 * k + 1) * 10^4) for k = 0 .. 120
Log10Table ==
    <<0, 17076, 20043, 21790, 23032, 23997, 24786, 25453, 26031, 26542,
      26998, 27412, 27789, 28136, 28457, 28756, 29036, 29299, 29547, 29782,
      30004, 30216, 30418, 30611, 30795, 30973, 31143, 31307, 31464, 31617,
      31764, 31906, 32044, 32177, 32307, 32433, 32555, 32674, 32790, 32903,
      33012, 33120, 33224, 33326, 33426, 33524, 33619, 33713, 33804, 33893,
      33981, 34067, 34151, 34234, 34315, 34395, 34473, 34550, 34625, 34700,
      34773, 34844, 34915, 34984, 35053, 35120, 35186, 35252, 35316, 35379,
      35442, 35504, 35564, 35624, 35683, 35741, 35799, 35856, 35912, 35967,
      36022, 36076, 36129, 36182, 36234, 36285, 36336, 36386, 36436, 36485,
      36533, 36581, 36629, 36675, 36722, 36768, 36813, 36858, 36903, 36947,
      36991, 37034, 37077, 37119, 37161, 37202, 37244, 37284, 37325, 37365,
      37404, 37444, 37483, 37521, 37560, 37597, 37635, 37672, 37709, 37746,
      37782>>

\* math.log10(x), to four decimals, for the arguments 50 * k + 1 the volumes of
\* the model produce (any other argument is an evaluation error)
log10(x) ==
    LET k == CHOOSE j \in DOMAIN Log10Table : x = R(50 * (j - 1) + 1)
    IN Rat(Log10Table[k], 10000)

\* _priority_from_score(score)
_priority_from_score(score) ==
    IF RLe(R(70), score) THEN "high"
    ELSE IF RLe(R(40), score) THEN "medium"
    ELSE "low"

\* _expected_impact(score)
_expected_impact(score) ==
    IF RLe(R(70), score) THEN "high"
    ELSE IF RLe(R(45), score) THEN "medium"
    ELSE "low"

\* _effort(categories)
_effort(categories) ==
    IF "conversion_optimization" \in Range(categories)
       /\ "content_refresh" \in Range(categories) THEN "medium"
    ELSE IF "conversion_optimization" \in Range(categories) THEN "medium"
    ELSE "low"

\* _log_scale with a bug: every positive value gets the full 20
_log_scale_saturated(val, multiplier) ==
    IF RLe(val, Zero) THEN Zero ELSE R(20)

\* _log_scale(value, multiplier)
_log_scale(val, multiplier) ==
    IF RLe(val, Zero) THEN Zero
    ELSE RMin(R(20), RMul(log10(RAdd(val, R(1))), multiplier))

\* SortedCategories with a bug: the tags are returned as the rules appended them
SortedCategories_as_appended(categories) == categories

\* SortedCategories with a bug: the tag scale_winner is lost
SortedCategories_no_scale_winner(categories) ==
    SelectSeq(<<"content_refresh", "conversion_optimization", "ctr_optimization">>,
              LAMBDA c : c \in Range(categories))

\* sorted(set(categories)) for the four tags of score_page
SortedCategories(categories) ==
    SelectSeq(<<"content_refresh", "conversion_optimization",
                "ctr_optimization", "scale_winner">>,
              LAMBDA c : c \in Range(categories))

RECURSIVE Dedup(_, _)
\* list(dict.fromkeys(q)): the first occurrence of every element, in order
Dedup(q, seen) ==
    IF q = <<>> THEN <<>>
    ELSE IF Head(q) \in seen THEN Dedup(Tail(q), seen)
    ELSE <<Head(q)>> \o Dedup(Tail(q), seen \cup {Head(q)})

ReasonCtr == "High impressions with below-target CTR indicate snippet/title opportunity."

ReasonCr ==
    "Strong traffic with weak conversion efficiency suggests on-page UX/content friction."

ReasonClicks == "Organic clicks are declining versus the previous period."

ReasonSessions == "On-site sessions are declining versus the previous period."

ReasonScale == "Page performs well in both acquisition and conversion."

ReasonPosition == "Average position indicates page may be near page-one threshold."

RecsCtr ==
    <<"Rewrite title and meta description to better match dominant queries.",
      "Test stronger value proposition in the first 60 title characters.">>

RecsCr ==
    <<"Strengthen above-the-fold CTA and internal next-step links.",
      "Add trust proof and tighten informational-to-commercial transition sections.">>

RecsClicks ==
    <<"Refresh outdated sections and compare SERP competitors for intent drift.">>

RecsSessions ==
    <<"Audit UX changes, page speed, and content relevance for recent traffic loss.">>

RecsScale ==
    <<"Expand topic cluster around this page's highest-performing query themes.",
      "Promote this page via internal links from adjacent intent pages.">>

\* score_rules with a bug: scale_winner is decided by the two volumes alone
score_rules_scale_by_volume(page, s) ==
    LET impressions == DictGet(page, "gsc_impressions", Zero)
        clicks == DictGet(page, "gsc_clicks", Zero)
        ctr == DictGet(page, "gsc_ctr", Zero)
        position == DictGet(page, "gsc_position", Zero)
        sessions == DictGet(page, "ga4_sessions", Zero)
        conversion_rate == DictGet(page, "ga4_conversion_rate", Zero)
        clicks_delta == DictGet(page, "gsc_clicks_delta_pct", None)
        sessions_delta == DictGet(page, "ga4_sessions_delta_pct", None)
        tiny == Rat(1, 1000000)
        ctr_on == /\ RLe(R(s.min_impressions_for_ctr_action), impressions)
                  /\ RLt(ctr, s.target_ctr)
        ctr_gap == RDiv(RSub(s.target_ctr, ctr), RMax(s.target_ctr, tiny))
        cr_on == /\ RLe(R(s.min_sessions_for_conversion_action), sessions)
                 /\ RLt(conversion_rate, s.target_conversion_rate)
        cr_gap == RDiv(RSub(s.target_conversion_rate, conversion_rate),
                       RMax(s.target_conversion_rate, tiny))
        clicks_on == clicks_delta # None /\ RLe(clicks_delta, Rat(-1, 5))
        sessions_on == sessions_delta # None /\ RLe(sessions_delta, Rat(-1, 5))
        scale_on == /\ RLe(R(s.min_impressions_for_ctr_action), impressions)
                    /\ RLe(R(s.min_sessions_for_conversion_action), sessions)
        position_on == RLt(R(8), position) /\ RLt(Zero, impressions)
    IN [ctr_on |-> ctr_on,
        ctr_score |->
            IF ctr_on
            THEN RMin(R(45), RAdd(RMul(ctr_gap, R(45)), _log_scale(impressions, R(6))))
            ELSE Zero,
        cr_on |-> cr_on,
        cr_score |->
            IF cr_on
            THEN RMin(R(45), RAdd(RMul(cr_gap, R(42)), _log_scale(sessions, R(6))))
            ELSE Zero,
        clicks_on |-> clicks_on,
        clicks_score |->
            IF clicks_on THEN RMin(R(30), RMul(RAbs(clicks_delta), R(60))) ELSE Zero,
        sessions_on |-> sessions_on,
        sessions_score |->
            IF sessions_on THEN RMin(R(30), RMul(RAbs(sessions_delta), R(55)))
            ELSE Zero,
        scale_on |-> scale_on,
        scale_score |->
            IF scale_on
            THEN RMin(R(35), RAdd(_log_scale(RAdd(clicks, sessions), R(7)), R(10)))
            ELSE Zero,
        position_on |-> position_on,
        position_score |->
            IF position_on
            THEN RMin(R(12), RMul(RSub(position, R(8)), Rat(3, 2)))
            ELSE Zero]

\* line 58-139: the rules of score_page; each yields its trigger and contribution
score_rules(page, s) ==
    LET impressions == DictGet(page, "gsc_impressions", Zero)
        clicks == DictGet(page, "gsc_clicks", Zero)
        ctr == DictGet(page, "gsc_ctr", Zero)
        position == DictGet(page, "gsc_position", Zero)
        sessions == DictGet(page, "ga4_sessions", Zero)
        conversion_rate == DictGet(page, "ga4_conversion_rate", Zero)
        clicks_delta == DictGet(page, "gsc_clicks_delta_pct", None)
        sessions_delta == DictGet(page, "ga4_sessions_delta_pct", None)
        tiny == Rat(1, 1000000)
        ctr_on == /\ RLe(R(s.min_impressions_for_ctr_action), impressions)
                  /\ RLt(ctr, s.target_ctr)
        ctr_gap == RDiv(RSub(s.target_ctr, ctr), RMax(s.target_ctr, tiny))
        cr_on == /\ RLe(R(s.min_sessions_for_conversion_action), sessions)
                 /\ RLt(conversion_rate, s.target_conversion_rate)
        cr_gap == RDiv(RSub(s.target_conversion_rate, conversion_rate),
                       RMax(s.target_conversion_rate, tiny))
        clicks_on == clicks_delta # None /\ RLe(clicks_delta, Rat(-1, 5))
        sessions_on == sessions_delta # None /\ RLe(sessions_delta, Rat(-1, 5))
        scale_on == /\ RLe(R(s.min_impressions_for_ctr_action), impressions)
                    /\ RLe(R(s.min_sessions_for_conversion_action), sessions)
                    /\ RLe(s.target_ctr, ctr)
                    /\ RLe(s.target_conversion_rate, conversion_rate)
        position_on == RLt(R(8), position) /\ RLt(Zero, impressions)
    IN [ctr_on |-> ctr_on,
        ctr_score |->
            IF ctr_on
            THEN RMin(R(45), RAdd(RMul(ctr_gap, R(45)), _log_scale(impressions, R(6))))
            ELSE Zero,
        cr_on |-> cr_on,
        cr_score |->
            IF cr_on
            THEN RMin(R(45), RAdd(RMul(cr_gap, R(42)), _log_scale(sessions, R(6))))
            ELSE Zero,
        clicks_on |-> clicks_on,
        clicks_score |->
            IF clicks_on THEN RMin(R(30), RMul(RAbs(clicks_delta), R(60))) ELSE Zero,
        sessions_on |-> sessions_on,
        sessions_score |->
            IF sessions_on THEN RMin(R(30), RMul(RAbs(sessions_delta), R(55)))
            ELSE Zero,
        scale_on |-> scale_on,
        scale_score |->
            IF scale_on
            THEN RMin(R(35), RAdd(_log_scale(RAdd(clicks, sessions), R(7)), R(10)))
            ELSE Zero,
        position_on |-> position_on,
        position_score |->
            IF position_on
            THEN RMin(R(12), RMul(RSub(position, R(8)), Rat(3, 2)))
            ELSE Zero]

\* line 158-170: the confidence of a page
score_confidence(page) ==
    LET impressions == DictGet(page, "gsc_impressions", Zero)
        sessions == DictGet(page, "ga4_sessions", Zero)
        sources == (IF RLt(Zero, impressions) THEN 1 ELSE 0)
                   + (IF RLt(Zero, sessions) THEN 1 ELSE 0)
        vol(v) == IF RLt(Zero, v)
                  THEN RMin(Rat(1, 4), RDiv(log10(RAdd(v, R(1))), R(10)))
                  ELSE Zero
        volume_factor == RAdd(vol(impressions), vol(sessions))
    IN RMin(R(1), RAdd(RAdd(Rat(35, 100), RMul(Rat(1, 5), R(sources))),
                       volume_factor))

\* score_result with a bug: the zero result is returned whenever there is no
\* category, also when the position bonus made the score positive
score_result_zero_without_category(page, r) ==
    LET score == RSum(<<r.ctr_score, r.cr_score, r.clicks_score, r.sessions_score,
                        r.scale_score, r.position_score>>)
        categories ==
            (IF r.ctr_on THEN <<"ctr_optimization">> ELSE <<>>)
            \o (IF r.cr_on THEN <<"conversion_optimization">> ELSE <<>>)
            \o (IF r.clicks_on THEN <<"content_refresh">> ELSE <<>>)
            \o (IF r.sessions_on THEN <<"content_refresh">> ELSE <<>>)
            \o (IF r.scale_on THEN <<"scale_winner">> ELSE <<>>)
        reasons ==
            (IF r.ctr_on THEN <<ReasonCtr>> ELSE <<>>)
            \o (IF r.cr_on THEN <<ReasonCr>> ELSE <<>>)
            \o (IF r.clicks_on THEN <<ReasonClicks>> ELSE <<>>)
            \o (IF r.sessions_on THEN <<ReasonSessions>> ELSE <<>>)
            \o (IF r.scale_on THEN <<ReasonScale>> ELSE <<>>)
            \o (IF r.position_on THEN <<ReasonPosition>> ELSE <<>>)
        recommendations ==
            (IF r.ctr_on THEN RecsCtr ELSE <<>>)
            \o (IF r.cr_on THEN RecsCr ELSE <<>>)
            \o (IF r.clicks_on THEN RecsClicks ELSE <<>>)
            \o (IF r.sessions_on THEN RecsSessions ELSE <<>>)
            \o (IF r.scale_on THEN RecsScale ELSE <<>>)
        unique_categories == SortedCategories(categories)
    IN IF categories = <<>>
       THEN [score |-> Zero, categories |-> <<>>, reasons |-> <<>>,
             recommendations |-> <<>>, priority |-> "low",
             expected_impact |-> "low", effort |-> "low", confidence |-> Zero]
       ELSE [score |-> Round(score, 100),
             categories |-> unique_categories,
             reasons |-> Dedup(reasons, {}),
             recommendations |-> Dedup(recommendations, {}),
             priority |-> _priority_from_score(score),
             expected_impact |-> _expected_impact(score),
             effort |-> _effort(unique_categories),
             confidence |-> Round(score_confidence(page), 100)]

\* score_page(page, settings)
score_result(page, r) ==
    LET score == RSum(<<r.ctr_score, r.cr_score, r.clicks_score, r.sessions_score,
                        r.scale_score, r.position_score>>)
        categories ==
            (IF r.ctr_on THEN <<"ctr_optimization">> ELSE <<>>)
            \o (IF r.cr_on THEN <<"conversion_optimization">> ELSE <<>>)
            \o (IF r.clicks_on THEN <<"content_refresh">> ELSE <<>>)
            \o (IF r.sessions_on THEN <<"content_refresh">> ELSE <<>>)
            \o (IF r.scale_on THEN <<"scale_winner">> ELSE <<>>)
        reasons ==
            (IF r.ctr_on THEN <<ReasonCtr>> ELSE <<>>)
            \o (IF r.cr_on THEN <<ReasonCr>> ELSE <<>>)
            \o (IF r.clicks_on THEN <<ReasonClicks>> ELSE <<>>)
            \o (IF r.sessions_on THEN <<ReasonSessions>> ELSE <<>>)
            \o (IF r.scale_on THEN <<ReasonScale>> ELSE <<>>)
            \o (IF r.position_on THEN <<ReasonPosition>> ELSE <<>>)
        recommendations ==
            (IF r.ctr_on THEN RecsCtr ELSE <<>>)
            \o (IF r.cr_on THEN RecsCr ELSE <<>>)
            \o (IF r.clicks_on THEN RecsClicks ELSE <<>>)
            \o (IF r.sessions_on THEN RecsSessions ELSE <<>>)
            \o (IF r.scale_on THEN RecsScale ELSE <<>>)
        unique_categories == SortedCategories(categories)
    IN IF categories = <<>> /\ RLe(score, Zero)
       THEN [score |-> Zero, categories |-> <<>>, reasons |-> <<>>,
             recommendations |-> <<>>, priority |-> "low",
             expected_impact |-> "low", effort |-> "low", confidence |-> Zero]
       ELSE [score |-> Round(score, 100),
             categories |-> unique_categories,
             reasons |-> Dedup(reasons, {}),
             recommendations |-> Dedup(recommendations, {}),
             priority |-> _priority_from_score(score),
             expected_impact |-> _expected_impact(score),
             effort |-> _effort(unique_categories),
             confidence |-> Round(score_confidence(page), 100)]

\* score_page(page, settings)
score_page(page, s) == score_result(page, score_rules(page, s))

(***************************************************************************)
(* core/analysis.py: generate_action_items                                 *)
(***************************************************************************)
\* action_item with a bug: the primary category is the last one of the list
action_item_last_category(page, result) ==
    [url |-> page["url"],
     score |-> result.score,
     priority |-> result.priority,
     category |-> IF result.categories # <<>>
                  THEN result.categories[Len(result.categories)]
                  ELSE "opportunity",
     categories |-> result.categories,
     expected_impact |-> result.expected_impact,
     effort |-> result.effort,
     confidence |-> result.confidence,
     reasons |-> result.reasons,
     recommended_actions |-> result.recommendations,
     evidence |->
        [gsc_impressions |-> Round(DictGet(page, "gsc_impressions", Zero), 100),
         gsc_clicks |-> Round(DictGet(page, "gsc_clicks", Zero), 100),
         gsc_ctr |-> Round(DictGet(page, "gsc_ctr", Zero), 10000),
         gsc_position |-> Round(DictGet(page, "gsc_position", Zero), 100),
         ga4_sessions |-> Round(DictGet(page, "ga4_sessions", Zero), 100),
         ga4_engagement_rate |->
             Round(DictGet(page, "ga4_engagement_rate", Zero), 10000),
         ga4_conversion_rate |->
             Round(DictGet(page, "ga4_conversion_rate", Zero), 10000),
         gsc_clicks_delta_pct |-> DictGet(page, "gsc_clicks_delta_pct", None),
         ga4_sessions_delta_pct |-> DictGet(page, "ga4_sessions_delta_pct", None)]]

\* line 107-133: the action item of a page and its score result
action_item(page, result) ==
    [url |-> page["url"],
     score |-> result.score,
     priority |-> result.priority,
     category |-> IF result.categories # <<>> THEN result.categories[1]
                  ELSE "opportunity",
     categories |-> result.categories,
     expected_impact |-> result.expected_impact,
     effort |-> result.effort,
     confidence |-> result.confidence,
     reasons |-> result.reasons,
     recommended_actions |-> result.recommendations,
     evidence |->
        [gsc_impressions |-> Round(DictGet(page, "gsc_impressions", Zero), 100),
         gsc_clicks |-> Round(DictGet(page, "gsc_clicks", Zero), 100),
         gsc_ctr |-> Round(DictGet(page, "gsc_ctr", Zero), 10000),
         gsc_position |-> Round(DictGet(page, "gsc_position", Zero), 100),
         ga4_sessions |-> Round(DictGet(page, "ga4_sessions", Zero), 100),
         ga4_engagement_rate |->
             Round(DictGet(page, "ga4_engagement_rate", Zero), 10000),
         ga4_conversion_rate |->
             Round(DictGet(page, "ga4_conversion_rate", Zero), 10000),
         gsc_clicks_delta_pct |-> DictGet(page, "gsc_clicks_delta_pct", None),
         ga4_sessions_delta_pct |-> DictGet(page, "ga4_sessions_delta_pct", None)]]

\* scored_item with a bug: a page with no current source (confidence 0.35 or
\* less) gives no item either
scored_item_with_source_only(page, result) ==
    IF RLe(result.score, Zero) \/ RLe(result.confidence, Rat(35, 100)) THEN <<>>
    ELSE <<action_item(page, result)>>

\* line 103-105: a page whose score is not > 0 gives no item
scored_item(page, result) ==
    IF RLe(result.score, Zero) THEN <<>> ELSE <<action_item(page, result)>>

RECURSIVE scored_items(_, _)
\* line 102-134: the items of the pages whose score is > 0, in page order
scored_items(ps, s) ==
    IF ps = <<>> THEN <<>>
    ELSE scored_item(Head(ps), score_page(Head(ps), s)) \o scored_items(Tail(ps), s)

\* item_key_less with a bug: the confidence is left out of the key
item_key_less_score_only(a, b) == RLt(a.score, b.score)

\* line 136: (score, confidence) of a < (score, confidence) of b, as Python
\* compares the key tuples
item_key_less(a, b) ==
    \/ RLt(a.score, b.score)
    \/ a.score = b.score /\ RLt(a.confidence, b.confidence)

RECURSIVE sort_items(_, _)
\* line 136: list.sort(key=..., reverse=True) is stable: an item goes behind
\* every item already placed whose key is not smaller than its own
sort_items(todo, done) ==
    IF todo = <<>> THEN done
    ELSE LET it == Head(todo)
             I == {i \in DOMAIN done : item_key_less(done[i], it)}
             at == IF I = {} THEN Len(done) + 1 ELSE SetMin(I)
         IN sort_items(Tail(todo),
                SubSeq(done, 1, at - 1) \o <<it>> \o From(done, at))

\* action_limit with a bug: no floor of 1
action_limit_no_floor(mi, s) ==
    LET limit == IF mi # None THEN mi[1] ELSE s.default_max_action_items
    IN IF limit < 0 THEN 0 ELSE limit

\* line 99 and 137: the number of items kept, max(1, limit)
action_limit(mi, s) ==
    LET limit == IF mi # None THEN mi[1] ELSE s.default_max_action_items
    IN IF limit > 1 THEN limit ELSE 1

\* line 137: items[: max(1, limit)]
first_items(sorted, keep) ==
    SubSeq(sorted, 1, IF keep < Len(sorted) THEN keep ELSE Len(sorted))

\* generate_action_items(merged_pages, settings, max_items=); max_items is
\* None or <<n>>
generate_action_items(ps, s, mi) ==
    first_items(sort_items(scored_items(ps, s), <<>>), action_limit(mi, s))

(***************************************************************************)
(* core/analysis.py: the report builders                                   *)
(***************************************************************************)
\* float(p.get(field, 0.0))
float_of(p, field) == DictGet(p, field, Zero)

\* line 71-75: sum(float(p.get(field, 0.0)) for p in merged_pages)
portfolio_total(ps, field) == RSum([i \in DOMAIN ps |-> float_of(ps[i], field)])

\* line 77-80: a blended rate, 0.0 under a denominator that is not > 0
portfolio_rate(num, den) == IF RLt(Zero, den) THEN RDiv(num, den) ELSE Zero

\* summarize_portfolio(merged_pages)
summarize_portfolio(ps) ==
    [total_pages |-> Len(ps),
     total_gsc_clicks |-> Round(portfolio_total(ps, "gsc_clicks"), 100),
     total_gsc_impressions |-> Round(portfolio_total(ps, "gsc_impressions"), 100),
     total_ga4_sessions |-> Round(portfolio_total(ps, "ga4_sessions"), 100),
     total_ga4_conversions |-> Round(portfolio_total(ps, "ga4_conversions"), 100),
     portfolio_ctr |->
         Round(portfolio_rate(portfolio_total(ps, "gsc_clicks"),
                              portfolio_total(ps, "gsc_impressions")), 10000),
     portfolio_conversion_rate |->
         Round(portfolio_rate(portfolio_total(ps, "ga4_conversions"),
                              portfolio_total(ps, "ga4_sessions")), 10000)]

RECURSIVE sorted_by(_, _, _, _)
\* line 145-149, 182-201, 247-252: sorted(rows, key=lambda p: float(p.get(field,
\* 0.0)), reverse=reverse) is stable: a row goes behind every row already placed
\* that does not come strictly after it
sorted_by(todo, field, reverse, done) ==
    IF todo = <<>> THEN done
    ELSE LET k == float_of(Head(todo), field)
             I == {i \in DOMAIN done :
                      IF reverse THEN RLt(float_of(done[i], field), k)
                      ELSE RLt(k, float_of(done[i], field))}
             at == IF I = {} THEN Len(done) + 1 ELSE SetMin(I)
         IN sorted_by(Tail(todo), field, reverse,
                SubSeq(done, 1, at - 1) \o <<Head(todo)>> \o From(done, at))

\* q[:n]: a negative n counts from the end
slice_to(q, n) ==
    SubSeq(q, 1, IF n < 0 THEN Len(q) + n ELSE IF n < Len(q) THEN n ELSE Len(q))

\* line 153-159: the entry of a row in a top list; in the dict display the key
\* written last wins
top_entry(row, field) ==
    [url |-> row["url"],
     gsc_clicks |-> Round(float_of(row, "gsc_clicks"), 100),
     ga4_sessions |-> Round(float_of(row, "ga4_sessions"), 100),
     ga4_conversions |-> Round(float_of(row, "ga4_conversions"), 100)]
    @@ (field :> Round(float_of(row, field), 10000))

\* line 150-161: the entries of rows
top_entries(rs, field) == [i \in DOMAIN rs |-> top_entry(rs[i], field)]

\* _top(merged_pages, field, top_n)
_top(ps, field, n) == top_entries(slice_to(sorted_by(ps, field, TRUE, <<>>), n), field)

\* build_popularity_snapshot(merged_pages, top_n=)
build_popularity_snapshot(ps, n) ==
    [top_by_gsc_clicks |-> _top(ps, "gsc_clicks", n),
     top_by_gsc_impressions |-> _top(ps, "gsc_impressions", n),
     top_by_ga4_sessions |-> _top(ps, "ga4_sessions", n),
     top_by_ga4_conversions |-> _top(ps, "ga4_conversions", n)]

\* line 183: the records whose delta is an int or a float
numeric_rows(ps, delta_field) ==
    SelectSeq(ps, LAMBDA p : DictGet(p, delta_field, None) # None)

\* trend_rows with a bug: the list is cut before it is sorted
trend_rows_cut_first(ps, delta_field, reverse, n) ==
    sorted_by(slice_to(numeric_rows(ps, delta_field), n), delta_field, reverse, <<>>)

\* line 182-202: sorted([...], key=..., reverse=...)[:top_n]
trend_rows(ps, delta_field, reverse, n) ==
    slice_to(sorted_by(numeric_rows(ps, delta_field), delta_field, reverse, <<>>), n)

\* line 204-213: _pack(rows, delta_field)
_pack(rs, delta_field) ==
    [i \in DOMAIN rs |->
        (delta_field :> Round(float_of(rs[i], delta_field), 10000))
        @@ [url |-> rs[i]["url"],
            gsc_clicks |-> Round(float_of(rs[i], "gsc_clicks"), 100),
            ga4_sessions |-> Round(float_of(rs[i], "ga4_sessions"), 100)]]

\* build_trend_report(merged_pages, top_n=)
build_trend_report(ps, n) ==
    [click_gainers |->
         _pack(trend_rows(ps, "gsc_clicks_delta_pct", TRUE, n), "gsc_clicks_delta_pct"),
     click_decliners |->
         _pack(trend_rows(ps, "gsc_clicks_delta_pct", FALSE, n), "gsc_clicks_delta_pct"),
     session_gainers |->
         _pack(trend_rows(ps, "ga4_sessions_delta_pct", TRUE, n),
               "ga4_sessions_delta_pct"),
     session_decliners |->
         _pack(trend_rows(ps, "ga4_sessions_delta_pct", FALSE, n),
               "ga4_sessions_delta_pct")]

\* line 228, 233, 239: float(p.get("gsc_impressions", 0.0)) > 0
has_gsc(p) == RLt(Zero, float_of(p, "gsc_impressions"))

\* line 229, 233, 244: float(p.get("ga4_sessions", 0.0)) > 0
has_ga4(p) == RLt(Zero, float_of(p, "ga4_sessions"))

\* line 236-240
gsc_only(ps) ==
    SelectSeq(ps, LAMBDA p : has_gsc(p) /\ RLe(float_of(p, "ga4_sessions"), Zero))

\* line 241-245
ga4_only(ps) ==
    SelectSeq(ps, LAMBDA p : has_ga4(p) /\ RLe(float_of(p, "gsc_impressions"), Zero))

\* line 255-262: the counts of the report
quality_counts(ps) ==
    [total_merged_pages |-> Len(ps),
     pages_with_gsc |-> Len(SelectSeq(ps, has_gsc)),
     pages_with_ga4 |-> Len(SelectSeq(ps, has_ga4)),
     pages_with_both |-> Len(SelectSeq(ps, LAMBDA p : has_gsc(p) /\ has_ga4(p))),
     gsc_only_pages |-> Len(gsc_only(ps)),
     ga4_only_pages |-> Len(ga4_only(ps))]

\* line 247-249 and 263-270: the top search-only pages
top_gsc_only_pages(ps, n) ==
    LET top == slice_to(sorted_by(gsc_only(ps), "gsc_impressions", TRUE, <<>>), n)
    IN [i \in DOMAIN top |->
           [url |-> top[i]["url"],
            gsc_impressions |-> Round(float_of(top[i], "gsc_impressions"), 100),
            gsc_clicks |-> Round(float_of(top[i], "gsc_clicks"), 100)]]

\* line 250-252 and 271-278: the top traffic-only pages
top_ga4_only_pages(ps, n) ==
    LET top == slice_to(sorted_by(ga4_only(ps), "ga4_sessions", TRUE, <<>>), n)
    IN [i \in DOMAIN top |->
           [url |-> top[i]["url"],
            ga4_sessions |-> Round(float_of(top[i], "ga4_sessions"), 100),
            ga4_conversions |-> Round(float_of(top[i], "ga4_conversions"), 100)]]

\* build_data_quality_report(merged_pages, top_n_unmatched=)
build_data_quality_report(ps, n) ==
    [counts |-> quality_counts(ps),
     top_gsc_only_pages |-> top_gsc_only_pages(ps, n),
     top_ga4_only_pages |-> top_ga4_only_pages(ps, n)]

(***************************************************************************)
(* The lists and dicts a call is given, creates and returns.  An object is *)
(* named <<name, key>>: <<name, <<>>>> is a list or dict and <<name, key>> *)
(* the list or dict held in it under key (a URL, or the position of a row). *)
(* Two names are equal iff they name one object; float, int, str and None  *)
(* values cannot be written to and are left out.                           *)
(***************************************************************************)
\* the list or dict name and the objects it holds under keys
Holding(name, keys) == {<<name, <<>>>>} \cup {<<name, k>> : k \in keys}

\* the positions of a list, as keys
IndexKeys(q) == {<<DigitChars[i + 1]>> : i \in DOMAIN q}

\* the URLs of a list of records, as keys
UrlKeys(ps) == {ps[i]["url"] : i \in DOMAIN ps}

\* a call: the objects reachable from its arguments, the objects it wrote to
\* and the objects reachable from what it returned
call_effect(op, args, written, result) ==
    [op |-> op, args |-> args, written |-> written, result |-> result]

\* normalization.py line 67-120: rows and dimensions are read (row.get, keys[i],
\* list(dimensions)); bucket, its items and dict(bucket) are made by the call
normalize_gsc_effect(name, rs, res) ==
    call_effect("normalize_gsc_rows_by_page",
        Holding("rows", IndexKeys(rs))
            \cup {<<"keys", <<DigitChars[i + 1]>>>> :
                     i \in {j \in DOMAIN rs : "keys" \in DOMAIN rs[j]}}
            \cup {<<"dimensions", <<>>>>},
        {<<"list(dimensions)", <<>>>>, <<"bucket", <<>>>>} \cup Holding(name, DOMAIN res),
        Holding(name, DOMAIN res))

\* normalization.py line 123-186: the same for the traffic rows
normalize_ga4_effect(name, rs, res) ==
    call_effect("normalize_ga4_rows_by_page",
        Holding("rows", IndexKeys(rs)),
        {<<"candidates", <<>>>>, <<"bucket", <<>>>>} \cup Holding(name, DOMAIN res),
        Holding(name, DOMAIN res))

\* an aggregate as merge_page_metrics is given it; None has no object
aggregate_objects(name, agg, given) ==
    IF given THEN Holding(name, DOMAIN agg) ELSE {}

\* analysis.py line 17-67: the aggregates are read (keys(), get); dict(...) of a
\* nested dict is a copy, and row and merged are made by the call
merge_effect(gc, ac, gp, ap, prev_given, res) ==
    call_effect("merge_page_metrics",
        aggregate_objects("gsc_current", gc, TRUE)
            \cup aggregate_objects("ga4_current", ac, TRUE)
            \cup aggregate_objects("gsc_previous", gp, prev_given)
            \cup aggregate_objects("ga4_previous", ap, prev_given),
        {<<"urls", <<>>>>}
            \cup {<<n, u>> : n \in {"current_g", "current_a", "prev_g", "prev_a"},
                             u \in UrlKeys(res)}
            \cup Holding("merged_pages", UrlKeys(res)),
        Holding("merged_pages", UrlKeys(res)))

\* scoring.py line 52-181: page and settings are read; the lists of the result
\* come from sorted(set(...)) and list(dict.fromkeys(...)), or are new [] lists
score_effect(page) ==
    call_effect("score_page",
        {<<"merged_pages", page["url"]>>, <<"settings", <<>>>>},
        {<<n, page["url"]>> :
            n \in {"categories", "reasons", "recommendations", "unique_categories",
                   "unique_reasons", "unique_recommendations", "ScoreResult"}},
        {<<n, page["url"]>> :
            n \in {"unique_categories", "unique_reasons", "unique_recommendations",
                   "ScoreResult"}})

\* analysis.py line 100-137: a page whose score is > 0 gets an item, which holds
\* the lists of its score result and a new evidence dict; items[: max(1, limit)]
\* is a new list of the first items
items_effect(ps, s, res) ==
    call_effect("generate_action_items",
        Holding("merged_pages", UrlKeys(ps)) \cup {<<"settings", <<>>>>},
        {<<"items", <<>>>>}
            \cup {<<n, u>> : n \in {"item", "evidence"},
                             u \in UrlKeys(scored_items(ps, s))},
        {<<"items[:limit]", <<>>>>}
            \cup {<<n, u>> :
                     n \in {"item", "evidence", "unique_categories", "unique_reasons",
                            "unique_recommendations"},
                     u \in UrlKeys(res)})

\* analysis.py line 70-90: the records are read; the result is a new dict
portfolio_effect(ps) ==
    call_effect("summarize_portfolio",
        Holding("merged_pages", UrlKeys(ps)),
        {<<"portfolio", <<>>>>},
        {<<"portfolio", <<>>>>})

\* the lists of a report and the entries they hold
report_lists(rep, names) ==
    UNION {Holding(n, UrlKeys(rep[n])) : n \in names}

\* analysis.py line 140-174: sorted(merged_pages) is a new list of the same
\* records; what is returned holds the new dicts of line 152-160
popularity_effect(ps, rep) ==
    call_effect("build_popularity_snapshot",
        Holding("merged_pages", UrlKeys(ps)),
        {<<"snapshot", <<>>>>, <<"rows", <<>>>>, <<"rows[:top_n]", <<>>>>}
            \cup report_lists(rep, DOMAIN rep),
        {<<"snapshot", <<>>>>} \cup report_lists(rep, DOMAIN rep))

\* trend_effect with a bug: the sorted lists are returned as they are, without
\* _pack, so that the report holds the records of merged_pages
trend_effect_unpacked(ps, rep) ==
    call_effect("build_trend_report",
        Holding("merged_pages", UrlKeys(ps)),
        {<<"trends", <<>>>>} \cup {<<n, <<>>>> : n \in DOMAIN rep},
        {<<"trends", <<>>>>} \cup {<<n, <<>>>> : n \in DOMAIN rep}
            \cup UNION {{<<"merged_pages", u>> : u \in UrlKeys(rep[n])} : n \in DOMAIN rep})

\* analysis.py line 177-220: the filtered and sorted lists hold the records of
\* merged_pages; what is returned holds the new dicts of _pack
trend_effect(ps, rep) ==
    call_effect("build_trend_report",
        Holding("merged_pages", UrlKeys(ps)),
        {<<"trends", <<>>>>, <<"sorted", <<>>>>, <<"sorted[:top_n]", <<>>>>}
            \cup report_lists(rep, DOMAIN rep),
        {<<"trends", <<>>>>} \cup report_lists(rep, DOMAIN rep))

\* analysis.py line 223-279: the bucket lists hold the records of merged_pages;
\* what is returned holds new dicts
quality_effect(ps, rep) ==
    call_effect("build_data_quality_report",
        Holding("merged_pages", UrlKeys(ps)),
        {<<n, <<>>>> : n \in {"quality", "counts", "pages_with_gsc", "pages_with_ga4",
                              "pages_with_both", "gsc_only", "ga4_only",
                              "gsc_only_top", "ga4_only_top"}}
            \cup report_lists(rep, {"top_gsc_only_pages", "top_ga4_only_pages"}),
        {<<"quality", <<>>>>, <<"counts", <<>>>>}
            \cup report_lists(rep, {"top_gsc_only_pages", "top_ga4_only_pages"}))

(***************************************************************************)
(* Specification SpecUrl: normalize_url applied to a raw URL, then to its  *)
(* own result, under fixed flags.                                          *)
(***************************************************************************)
Idle == "idle"

url_idle ==
    /\ value = Idle /\ drop_query = Idle /\ drop_fragment = Idle
    /\ remove_www = Idle /\ url_once = Idle /\ url_twice = Idle

agg_idle == rows = Idle /\ dimensions = Idle /\ pages = Idle /\ float_bits = None

report_idle ==
    /\ settings = Idle /\ include_previous_period = Idle /\ max_rows = Idle
    /\ gsc_current = Idle /\ ga4_current = Idle
    /\ gsc_previous = Idle /\ ga4_previous = Idle
    /\ merged_pages = Idle /\ max_items = Idle /\ items = Idle
    /\ priorities = Idle /\ returned_items = Idle

score_idle == record = Idle /\ scored = Idle

tool_idle == top_n = Idle /\ report = Idle /\ effects = Idle

conn_idle ==
    /\ _gsc_connector = Idle /\ _ga4_connector = Idle /\ instances = Idle
    /\ outcome = Idle /\ calls = Idle

page_idle ==
    /\ page_size = Idle /\ start_row = Idle /\ all_rows = Idle
    /\ row_count = Idle /\ requests = Idle

range_idle ==
    /\ start_date = Idle /\ end_date = Idle /\ today = Idle
    /\ lookback_days = Idle /\ ranges = Idle

\* the longest run of path characters appended to a raw URL
MaxTailLen == 3

RECURSIVE SeqsUpTo(_, _)
\* the sequences over S of length at most n
SeqsUpTo(S, n) ==
    IF n = 0 THEN {<<>>}
    ELSE LET shorter == SeqsUpTo(S, n - 1)
         IN shorter \cup {Append(q, x) : q \in shorter, x \in S}

H_a == <<"a", ".", "c", "o", "m">>

H_wwwA == <<"w", "w", "w", ".", "A", ".", "c", "o", "m">>

UrlPrefixes ==
    {<<>>, P_https, <<"H","T","T","P",":","/","/">>, <<"/", "/">>}

UrlHosts == {<<>>, H_a, H_wwwA}

UrlTails == SeqsUpTo({"/", "X", "?"}, MaxTailLen)

UrlFragments == {<<>>, <<"#", "f">>}

UrlInputs ==
    {ws \o pre \o host \o tail \o frag \o ws :
        ws \in {<<>>, <<" ">>}, pre \in UrlPrefixes, host \in UrlHosts,
        tail \in UrlTails, frag \in UrlFragments}

B_b == P_https \o <<"b", ".", "o", "r", "g", "/", "d", "/">>

BaseUrls == {<<>>, B_b}

InitUrl ==
    /\ pc = "url"
    /\ value \in UrlInputs
    /\ base_url \in BaseUrls
    /\ drop_query \in BOOLEAN
    /\ drop_fragment \in BOOLEAN
    /\ remove_www \in BOOLEAN
    /\ url_once = None
    /\ url_twice = None
    /\ agg_idle
    /\ report_idle
    /\ score_idle
    /\ tool_idle
    /\ conn_idle
    /\ page_idle
    /\ range_idle

NormalizeUrl ==
    /\ pc = "url"
    /\ url_once' = normalize_url(value, base_url, drop_query, drop_fragment, remove_www)
    /\ pc' = "url_once"
    /\ UNCHANGED <<value, base_url, drop_query, drop_fragment, remove_www, url_twice,
                   agg_vars, report_vars, score_vars, tool_vars, conn_vars, page_vars,
                   range_vars>>

NormalizeUrlAgain ==
    /\ pc = "url_once"
    /\ url_twice' =
           normalize_url(url_once, base_url, drop_query, drop_fragment, remove_www)
    /\ pc' = "url_done"
    /\ UNCHANGED <<value, base_url, drop_query, drop_fragment, remove_www, url_once,
                   agg_vars, report_vars, score_vars, tool_vars, conn_vars, page_vars,
                   range_vars>>

NextUrl == NormalizeUrl \/ NormalizeUrlAgain

SpecUrl == InitUrl /\ [][NextUrl]_vars

\* C1: normalize_url is idempotent: normalizing the result of normalize_url again,
\* under the same base_url and flags, returns it unchanged.
C1_Idempotent == pc = "url_done" => url_twice = url_once

(***************************************************************************)
(* Specification SpecAgg: one aggregator applied to one raw row batch.     *)
(***************************************************************************)
\* the longest row batch handed to an aggregator
MaxRows == 3

\* the bits of a float's significand under SpecAggFloat (binary64 has 53)
MantissaBits == 12

U_ax == P_https \o H_a \o <<"/", "x">>

U_Ax_slash == P_https \o <<"A", ".", "c", "o", "m">> \o <<"/", "x", "/">>

U_ay == P_https \o H_a \o <<"/", "y">>

U_az == P_https \o H_a \o <<"/", "z">>

B_a == P_https \o H_a

GscRow(keys, clicks, impressions, ctr, position) ==
    [keys |-> keys, clicks |-> clicks, impressions |-> impressions,
     ctr |-> ctr, position |-> position]

\* rows as the search source returns them: a key tuple and JSON numbers; the pool
\* also holds rows with numeric strings, an unparsable value, missing metrics,
\* an empty key tuple and a blank URL
GscRowPool ==
    { GscRow(<<U_ax>>, Num(10, 1), Num(100, 1), Num(1, 10), Num(5, 1)),
      GscRow(<<U_Ax_slash>>, Num(6, 1), Num(300, 1), Num(1, 50), Num(15, 1)),
      GscRow(<<<<"/", "y">>>>, Num(1, 1), Num(0, 1), Num(1, 2), Num(3, 1)),
      GscRow(<<U_ay>>, Str(<<"1", "2">>), Str(<<"5", "0">>),
             Str(<<"0", ".", "2", "5">>), Str(<<"n", "/", "a">>)),
      GscRow(<<<<"q">>, U_ax>>, Num(2, 1), Num(40, 1), Num(1, 20), Num(8, 1)),
      [keys |-> <<>>, clicks |-> Num(7, 1), impressions |-> Num(70, 1)],
      [keys |-> <<<<" ">>>>, impressions |-> Num(9, 1)],
      GscRow(<<U_az>>, Num(1, 1), Num(-5, 1), Num(1, 5), Num(2, 1)) }

GscDimensions == {<<>>, <<"query", "page">>, <<"query">>}

Ga4RowPool ==
    { [landingPagePlusQueryString |-> <<"/", "x", "?", "u", "=", "1">>,
       sessions |-> Num(100, 1), engagedSessions |-> Num(60, 1),
       conversions |-> Num(1, 10), totalUsers |-> Num(80, 1),
       screenPageViews |-> Num(150, 1), userEngagementDuration |-> Num(905, 10)],
      [landingPage |-> U_Ax_slash,
       sessions |-> Num(300, 1), engagedSessions |-> Num(90, 1),
       conversions |-> Num(6, 1), totalUsers |-> Num(200, 1),
       screenPageViews |-> Num(400, 1), userEngagementDuration |-> Num(12, 1)],
      [landingPagePlusQueryString |-> <<>>, pagePath |-> <<"/", "y">>,
       sessions |-> Num(0, 1), conversions |-> Num(1, 1)],
      [fullPageUrl |-> U_ay, sessions |-> Str(<<"5", "0">>),
       engagedSessions |-> Str(<<"2", "5">>), conversions |-> Str(<<"n", "/", "a">>)],
      [landingPagePlusQueryString |-> <<"/", "x">>, pagePath |-> <<"/", "z">>,
       sessions |-> Num(10, 1), engagedSessions |-> Num(10, 1),
       conversions |-> Num(3, 5)],
      [landingPage |-> U_az, sessions |-> Num(-2, 1),
       engagedSessions |-> Num(1, 1), conversions |-> Num(1, 1)] }

Ga4Candidates == {<<>>, <<"pagePath", "landingPage">>}

AggBaseUrls == {<<>>, B_a}

InitBatch ==
    /\ \/ /\ pc = "gsc"
          /\ rows \in SeqsUpTo(GscRowPool, MaxRows)
          /\ dimensions \in GscDimensions
       \/ /\ pc = "ga4"
          /\ rows \in SeqsUpTo(Ga4RowPool, MaxRows)
          /\ dimensions \in Ga4Candidates
    /\ base_url \in AggBaseUrls
    /\ pages = None
    /\ url_idle
    /\ report_idle
    /\ score_idle
    /\ tool_idle
    /\ conn_idle
    /\ page_idle
    /\ range_idle

\* every bit of a float is kept
InitAgg == InitBatch /\ float_bits = None

\* a float has MantissaBits bits
InitAggFloat == InitBatch /\ float_bits = <<MantissaBits>>

NormalizeGscRows ==
    /\ pc = "gsc"
    /\ pages' = normalize_gsc_rows_by_page(rows, dimensions, base_url)
    /\ pc' = "gsc_done"
    /\ UNCHANGED <<rows, dimensions, float_bits, base_url, url_vars, report_vars,
                   score_vars, tool_vars, conn_vars, page_vars,
                   range_vars>>

NormalizeGa4Rows ==
    /\ pc = "ga4"
    /\ pages' = normalize_ga4_rows_by_page(rows, dimensions, base_url)
    /\ pc' = "ga4_done"
    /\ UNCHANGED <<rows, dimensions, float_bits, base_url, url_vars, report_vars,
                   score_vars, tool_vars, conn_vars, page_vars,
                   range_vars>>

NextAgg == NormalizeGscRows \/ NormalizeGa4Rows

SpecAgg == InitAgg /\ [][NextAgg]_vars

SpecAggFloat == InitAggFloat /\ [][NextAgg]_vars

\* the rows of the batch that normalize to url
GscRowsOf(url) ==
    {i \in DOMAIN rows : gsc_row_url(rows[i], dimensions, base_url) = url}

\* the sum over the rows of I of a metric, each weighted by w: the row's
\* impressions when weighted, 1 otherwise
GscTotal(I, metric, weighted) ==
    RSum([i \in DOMAIN rows |->
            IF i \notin I THEN Zero
            ELSE IF weighted
            THEN RMul(to_float(Get(rows[i], metric), Zero),
                      to_float(Get(rows[i], "impressions"), Zero))
            ELSE to_float(Get(rows[i], metric), Zero)])

\* C2: normalize_gsc_rows_by_page sums clicks and impressions exactly and, for a
\* bucket with impressions > 0, gsc_ctr and gsc_position are the
\* impression-weighted averages of the rows that normalize to the bucket's URL.
C2_WeightedAverages ==
    pc = "gsc_done" =>
        \A url \in DOMAIN pages :
            LET I == GscRowsOf(url)
                imp == GscTotal(I, "impressions", FALSE)
            IN /\ pages[url].gsc_clicks = GscTotal(I, "clicks", FALSE)
               /\ pages[url].gsc_impressions = imp
               /\ RLt(Zero, imp) =>
                     /\ RMul(pages[url].gsc_ctr, imp) = GscTotal(I, "ctr", TRUE)
                     /\ RMul(pages[url].gsc_position, imp)
                            = GscTotal(I, "position", TRUE)

\* the example of the specification: impressions {100, 300} with CTR {0.10, 0.02}
\* aggregate to CTR 0.04 (the unweighted mean is 0.06)
C2_Witness ==
    /\ pc = "gsc_done"
    /\ \E url \in DOMAIN pages :
          /\ pages[url].gsc_rows = 2
          /\ pages[url].gsc_impressions = R(400)
          /\ pages[url].gsc_ctr = Rat(1, 25)
          /\ pages[url].gsc_position = Rat(25, 2)

Permuted(q, p) == [i \in DOMAIN q |-> q[p[i]]]

\* C3: both aggregators are order-independent: every permutation of the row batch
\* yields the same mapping (the same URLs, the same value of every metric).
C3_OrderIndependent ==
    /\ pc = "gsc_done" =>
          \A p \in Permutations(DOMAIN rows) :
              normalize_gsc_rows_by_page(Permuted(rows, p), dimensions, base_url)
                  = pages
    /\ pc = "ga4_done" =>
          \A p \in Permutations(DOMAIN rows) :
              normalize_ga4_rows_by_page(Permuted(rows, p), dimensions, base_url)
                  = pages

(***************************************************************************)
(* Specification Spec: server.py's _fetch_page_data followed by            *)
(* generate_action_items (the tool analytics_generate_action_items).  The  *)
(* sources are external: each fetch receives the first max_rows rows of    *)
(* one of the row tables below.                                            *)
(***************************************************************************)
\* the largest max_rows of a fetch
MaxFetchRows == 3

\* the largest explicit max_items
MaxItemLimit == 2

DefaultMinImpressions == 200

DefaultMinSessions == 50

DefaultMaxActionItems == 30

DefaultSettings ==
    [enable_gsc |-> TRUE, enable_ga4 |-> TRUE, canonical_base_url |-> <<>>,
     min_impressions_for_ctr_action |-> DefaultMinImpressions,
     min_sessions_for_conversion_action |-> DefaultMinSessions,
     target_ctr |-> Rat(3, 100), target_conversion_rate |-> Rat(1, 50),
     default_max_action_items |-> DefaultMaxActionItems]

SettingsSet ==
    { DefaultSettings,
      [DefaultSettings EXCEPT !.canonical_base_url = B_a,
                              !.default_max_action_items = 1],
      [DefaultSettings EXCEPT !.enable_ga4 = FALSE,
                              !.default_max_action_items = 0],
      [DefaultSettings EXCEPT !.enable_gsc = FALSE, !.canonical_base_url = B_a] }

U_av == P_https \o H_a \o <<"/", "v">>

U_aw == P_https \o H_a \o <<"/", "w">>

\* what the search source holds for the current period
GscCurrentTables ==
    { <<GscRow(<<U_ax>>, Num(10, 1), Num(1000, 1), Num(1, 100), Num(15, 1)),
        GscRow(<<U_ay>>, Num(50, 1), Num(100, 1), Num(1, 2), Num(4, 1)),
        GscRow(<<U_az>>, Num(50, 1), Num(150, 1), Num(1, 3), Num(4, 1)),
        GscRow(<<U_Ax_slash>>, Num(50, 1), Num(1000, 1), Num(1, 20), Num(5, 1))>>,
      <<GscRow(<<U_ay>>, Num(50, 1), Num(100, 1), Num(1, 2), Num(15, 1)),
        GscRow(<<U_az>>, Num(100, 1), Num(1000, 1), Num(1, 10), Num(3, 1)),
        GscRow(<<<<"/", "x">>>>, Num(10, 1), Num(1000, 1), Num(1, 100), Num(15, 1)),
        GscRow(<<U_ay>>, Num(0, 1), Num(0, 1), Num(0, 1), Num(0, 1))>>,
      <<>> }

\* what the search source holds for the previous period
GscPreviousTables ==
    { <<GscRow(<<U_ay>>, Num(100, 1), Num(200, 1), Num(1, 2), Num(4, 1)),
        GscRow(<<U_az>>, Num(100, 1), Num(200, 1), Num(1, 2), Num(4, 1)),
        GscRow(<<U_ax>>, Num(100, 1), Num(1000, 1), Num(1, 10), Num(9, 1)),
        GscRow(<<U_aw>>, Num(50, 1), Num(100, 1), Num(1, 2), Num(2, 1))>>,
      <<GscRow(<<U_aw>>, Num(50, 1), Num(100, 1), Num(1, 2), Num(2, 1)),
        GscRow(<<U_ay>>, Num(0, 1), Num(100, 1), Num(0, 1), Num(30, 1)),
        GscRow(<<U_ax>>, Num(10, 1), Num(500, 1), Num(1, 50), Num(12, 1)),
        GscRow(<<U_az>>, Num(50, 1), Num(0, 1), Num(0, 1), Num(0, 1))>> }

Ga4Row(dim, url, sessions, engaged, conversions) ==
    (dim :> url) @@
    [sessions |-> sessions, engagedSessions |-> engaged, conversions |-> conversions,
     totalUsers |-> sessions, screenPageViews |-> sessions,
     userEngagementDuration |-> engaged]

\* what the traffic source holds for the current period
Ga4CurrentTables ==
    { <<Ga4Row("landingPagePlusQueryString", <<"/", "x", "?", "u", "=", "1">>,
               Num(500, 1), Num(100, 1), Num(2, 1)),
        Ga4Row("landingPagePlusQueryString", U_az, Num(100, 1), Num(50, 1), Num(10, 1)),
        Ga4Row("landingPagePlusQueryString", U_av, Num(50, 1), Num(50, 1), Num(0, 1)),
        Ga4Row("landingPagePlusQueryString", U_ay, Num(50, 1), Num(0, 1), Num(5, 1))>>,
      <<Ga4Row("landingPagePlusQueryString", U_av, Num(50, 1), Num(50, 1), Num(0, 1)),
        Ga4Row("landingPagePlusQueryString", U_ax, Num(500, 1), Num(100, 1), Num(2, 1)),
        Ga4Row("landingPagePlusQueryString", U_av, Num(0, 1), Num(0, 1), Num(1, 1)),
        Ga4Row("landingPagePlusQueryString", U_az, Num(100, 1), Num(50, 1), Num(1, 1))>>,
      <<Ga4Row("landingPagePlusQueryString", U_aw, Num(0, 1), Num(0, 1), Num(1, 1)),
        Ga4Row("landingPagePlusQueryString", U_ay, Num(50, 1), Num(20, 1), Num(1, 1)),
        Ga4Row("landingPagePlusQueryString", U_av, Num(200, 1), Num(50, 1), Num(2, 1))>> }

\* what the traffic source holds for the previous period
Ga4PreviousTables ==
    { <<Ga4Row("landingPagePlusQueryString", U_ax, Num(1000, 1), Num(100, 1), Num(4, 1)),
        Ga4Row("landingPagePlusQueryString", U_az, Num(0, 1), Num(0, 1), Num(0, 1)),
        Ga4Row("landingPagePlusQueryString", U_av, Num(50, 1), Num(50, 1), Num(0, 1)),
        Ga4Row("landingPagePlusQueryString", U_aw, Num(100, 1), Num(50, 1), Num(5, 1))>>,
      <<>> }

\* the first n rows of a table
Take(table, n) == SubSeq(table, 1, IF n < Len(table) THEN n ELSE Len(table))

Init ==
    /\ pc = "fetch_gsc"
    /\ settings \in SettingsSet
    /\ include_previous_period \in BOOLEAN
    /\ max_rows \in 0..MaxFetchRows
    /\ gsc_current = EmptyDict
    /\ ga4_current = EmptyDict
    /\ gsc_previous = EmptyDict
    /\ ga4_previous = EmptyDict
    /\ merged_pages = <<>>
    /\ max_items = None
    /\ items = <<>>
    /\ priorities = None
    /\ returned_items = <<>>
    /\ base_url = Idle
    /\ url_idle
    /\ agg_idle
    /\ score_idle
    /\ top_n = None
    /\ report = None
    /\ effects = {}
    /\ conn_idle
    /\ page_idle
    /\ range_idle

\* server.py line 143-174: the search-performance fetches of _fetch_page_data
FetchGsc ==
    /\ pc = "fetch_gsc"
    /\ pc' = "fetch_ga4"
    /\ \/ /\ ~settings.enable_gsc
          /\ UNCHANGED <<gsc_current, gsc_previous>>
          /\ effects' = {}
       \/ /\ settings.enable_gsc
          /\ \E cur \in GscCurrentTables, prev \in GscPreviousTables :
                /\ gsc_current' =
                       normalize_gsc_rows_by_page(Take(cur, max_rows), <<"page">>,
                                                  settings.canonical_base_url)
                /\ gsc_previous' =
                       IF include_previous_period
                       THEN normalize_gsc_rows_by_page(Take(prev, max_rows), <<"page">>,
                                                       settings.canonical_base_url)
                       ELSE gsc_previous
                /\ effects' =
                       {normalize_gsc_effect("gsc_current", Take(cur, max_rows),
                                             gsc_current')}
                       \cup IF include_previous_period
                            THEN {normalize_gsc_effect("gsc_previous",
                                      Take(prev, max_rows), gsc_previous')}
                            ELSE {}
    /\ UNCHANGED <<settings, include_previous_period, max_rows, ga4_current,
                   ga4_previous, merged_pages, max_items, items,
                   priorities, returned_items, base_url, url_vars, agg_vars,
                   score_vars, top_n, report, conn_vars, page_vars,
                   range_vars>>

\* server.py line 176-214: the traffic fetches of _fetch_page_data
FetchGa4 ==
    /\ pc = "fetch_ga4"
    /\ pc' = "merge"
    /\ \/ /\ ~settings.enable_ga4
          /\ UNCHANGED <<ga4_current, ga4_previous>>
          /\ effects' = {}
       \/ /\ settings.enable_ga4
          /\ \E cur \in Ga4CurrentTables, prev \in Ga4PreviousTables :
                /\ ga4_current' =
                       normalize_ga4_rows_by_page(Take(cur, max_rows), <<>>,
                                                  settings.canonical_base_url)
                /\ ga4_previous' =
                       IF include_previous_period
                       THEN normalize_ga4_rows_by_page(Take(prev, max_rows), <<>>,
                                                       settings.canonical_base_url)
                       ELSE ga4_previous
                /\ effects' =
                       {normalize_ga4_effect("ga4_current", Take(cur, max_rows),
                                             ga4_current')}
                       \cup IF include_previous_period
                            THEN {normalize_ga4_effect("ga4_previous",
                                      Take(prev, max_rows), ga4_previous')}
                            ELSE {}
    /\ UNCHANGED <<settings, include_previous_period, max_rows, gsc_current,
                   gsc_previous, merged_pages, max_items, items,
                   priorities, returned_items, base_url, url_vars, agg_vars,
                   score_vars, top_n, report, conn_vars, page_vars,
                   range_vars>>

\* the previous aggregates as server.py line 216-221 passes them
PrevArg(prev) == IF include_previous_period THEN prev ELSE EmptyDict

\* server.py line 216-221: merge_page_metrics on the four aggregates
MergePageMetrics ==
    /\ pc = "merge"
    /\ pc' = "items"
    /\ merged_pages' = merge_page_metrics(gsc_current, ga4_current,
                                          PrevArg(gsc_previous), PrevArg(ga4_previous))
    /\ effects' = {merge_effect(gsc_current, ga4_current, gsc_previous, ga4_previous,
                                include_previous_period, merged_pages')}
    /\ UNCHANGED <<settings, include_previous_period, max_rows, gsc_current,
                   ga4_current, gsc_previous, ga4_previous, max_items, items,
                   priorities, returned_items, base_url, url_vars, agg_vars,
                   score_vars, top_n, report, conn_vars, page_vars,
                   range_vars>>

MaxItemsChoices == {None} \cup {<<n>> : n \in 0..MaxItemLimit}

\* server.py line 677: generate_action_items on the merged pages
GenerateActionItems ==
    /\ pc = "items"
    /\ pc' = "done"
    /\ \E mi \in MaxItemsChoices :
          /\ max_items' = mi
          /\ items' = generate_action_items(merged_pages, settings, mi)
    /\ effects' = {score_effect(merged_pages[i]) : i \in DOMAIN merged_pages}
                  \cup {items_effect(merged_pages, settings, items')}
    /\ UNCHANGED <<settings, include_previous_period, max_rows, gsc_current,
                   ga4_current, gsc_previous, ga4_previous, merged_pages,
                   priorities, returned_items, base_url, url_vars, agg_vars,
                   score_vars, top_n, report, conn_vars, page_vars,
                   range_vars>>

\* the priorities argument: None or the empty list (both <<>>), or a list of str
PrioritiesChoices ==
    { None,
      <<<<"h", "i", "g", "h">>>>,
      <<<<" ", "H", "i", "g", "h">>, <<"l", "o", "w", " ">>>>,
      <<<<"m", "e", "d">>>> }

\* the characters of a priority of an item
PriorityChars(p) ==
    CASE p = "high" -> <<"h", "i", "g", "h">>
      [] p = "medium" -> <<"m", "e", "d", "i", "u", "m">>
      [] p = "low" -> <<"l", "o", "w">>

\* server.py line 679-681: the items whose priority is one of priorities
filter_priorities(its, prs) ==
    IF prs = None THEN its
    ELSE SelectSeq(its, LAMBDA i :
             Lower(PriorityChars(i.priority))
                 \in {Strip(Lower(prs[k])) : k \in DOMAIN prs})

\* server.py line 679-695: the items are filtered by priority and returned
FilterPriorities ==
    /\ pc = "done"
    /\ pc' = "returned"
    /\ \E prs \in PrioritiesChoices :
          /\ priorities' = prs
          /\ returned_items' = filter_priorities(items, prs)
    /\ effects' = {}
    /\ UNCHANGED <<settings, include_previous_period, max_rows, gsc_current,
                   ga4_current, gsc_previous, ga4_previous, merged_pages,
                   max_items, items, base_url, url_vars, agg_vars,
                   score_vars, top_n, report, conn_vars, page_vars,
                   range_vars>>

\* the largest top_n and top_n_unmatched a report tool is called with
MaxTopN == 2

\* the top_n argument of a report tool
TopNChoices == -1..MaxTopN

\* server.py line 723, 750 and 778: max(1, top_n)
at_least_one(n) == IF n > 1 THEN n ELSE 1

\* server.py line 639: analytics_merge_page_metrics summarizes the merged pages
SummarizePortfolio ==
    /\ pc = "items"
    /\ pc' = "portfolio"
    /\ report' = summarize_portfolio(merged_pages)
    /\ effects' = {portfolio_effect(merged_pages)}
    /\ UNCHANGED <<top_n, base_url, url_vars, agg_vars, report_vars, score_vars,
                   conn_vars, page_vars, range_vars>>

\* server.py line 701-724: analytics_popularity_snapshot, which fetches without
\* the previous period
BuildPopularitySnapshot ==
    /\ pc = "items"
    /\ ~include_previous_period
    /\ pc' = "popularity"
    /\ \E n \in TopNChoices :
          /\ top_n' = at_least_one(n)
          /\ report' = build_popularity_snapshot(merged_pages, at_least_one(n))
    /\ effects' = {popularity_effect(merged_pages, report')}
    /\ UNCHANGED <<base_url, url_vars, agg_vars, report_vars, score_vars,
                   conn_vars, page_vars, range_vars>>

\* server.py line 728-751: analytics_trend_report, which fetches with the
\* previous period
BuildTrendReport ==
    /\ pc = "items"
    /\ include_previous_period
    /\ pc' = "trend"
    /\ \E n \in TopNChoices :
          /\ top_n' = at_least_one(n)
          /\ report' = build_trend_report(merged_pages, at_least_one(n))
    /\ effects' = {trend_effect(merged_pages, report')}
    /\ UNCHANGED <<base_url, url_vars, agg_vars, report_vars, score_vars,
                   conn_vars, page_vars, range_vars>>

\* server.py line 755-780: analytics_data_quality_report, which fetches without
\* the previous period
BuildDataQualityReport ==
    /\ pc = "items"
    /\ ~include_previous_period
    /\ pc' = "quality"
    /\ \E n \in TopNChoices :
          /\ top_n' = at_least_one(n)
          /\ report' = build_data_quality_report(merged_pages, at_least_one(n))
    /\ effects' = {quality_effect(merged_pages, report')}
    /\ UNCHANGED <<base_url, url_vars, agg_vars, report_vars, score_vars,
                   conn_vars, page_vars, range_vars>>

Next ==
    FetchGsc \/ FetchGa4 \/ MergePageMetrics \/ GenerateActionItems
    \/ FilterPriorities \/ SummarizePortfolio \/ BuildPopularitySnapshot
    \/ BuildTrendReport \/ BuildDataQualityReport

Spec == Init /\ [][Next]_vars

(***************************************************************************)
(* Claims about merge_page_metrics, under Spec.  After MergePageMetrics    *)
(* the four aggregates it was called with are still in the state.          *)
(***************************************************************************)
Merged == pc \in {"items", "done", "returned"}

\* the URLs of the merged records, in the order of the records
MergedUrls == [i \in DOMAIN merged_pages |-> merged_pages[i]["url"]]

\* C4: merge_page_metrics emits exactly one record per URL of the union of the key
\* sets of its four inputs, in strictly ascending order of URL: no duplicate, no
\* URL missing, no other URL.
C4_UrlUnionSorted ==
    Merged =>
        /\ Range(MergedUrls) =
               DOMAIN gsc_current \cup DOMAIN ga4_current
               \cup DOMAIN PrevArg(gsc_previous) \cup DOMAIN PrevArg(ga4_previous)
        /\ \A i \in DOMAIN MergedUrls :
               i > 1 => StrLess(MergedUrls[i - 1], MergedUrls[i])

\* three records or more, one of them for a URL that only the previous search
\* aggregate holds and one for a URL that only the current traffic aggregate holds
C4_Witness ==
    /\ Merged
    /\ Len(merged_pages) >= 3
    /\ \E u \in DOMAIN gsc_previous :
           u \notin DOMAIN gsc_current \cup DOMAIN ga4_current \cup DOMAIN ga4_previous
    /\ \E u \in DOMAIN ga4_current :
           u \notin DOMAIN gsc_current \cup DOMAIN gsc_previous \cup DOMAIN ga4_previous

\* C5: in the merged record of a URL that one current-period source does not
\* report, the metrics of that source are 0 in the record: gsc_clicks and
\* gsc_impressions for a URL of the traffic source only, ga4_sessions and
\* ga4_conversions for a URL of the search source only.
C5_AbsentSourceIsZero ==
    Merged =>
        \A i \in DOMAIN merged_pages :
            LET r == merged_pages[i]
            IN /\ (r["url"] \in DOMAIN ga4_current /\ r["url"] \notin DOMAIN gsc_current)
                      => /\ "gsc_clicks" \in DOMAIN r
                         /\ "gsc_impressions" \in DOMAIN r
                         /\ r["gsc_clicks"] = Zero
                         /\ r["gsc_impressions"] = Zero
               /\ (r["url"] \in DOMAIN gsc_current /\ r["url"] \notin DOMAIN ga4_current)
                      => /\ "ga4_sessions" \in DOMAIN r
                         /\ "ga4_conversions" \in DOMAIN r
                         /\ r["ga4_sessions"] = Zero
                         /\ r["ga4_conversions"] = Zero

\* the value of a metric of a URL in an aggregate, with whether the URL is a key
CurrentOf(agg, url, metric) == IF url \in DOMAIN agg THEN agg[url][metric] ELSE Zero

\* what a delta field must be: null without a previous value > 0, and otherwise the
\* number d with d * previous = current - previous
DeltaIs(d, current, prev_agg, url, metric) ==
    IF url \in DOMAIN prev_agg /\ RLt(Zero, prev_agg[url][metric])
    THEN /\ d # None
         /\ RMul(d, prev_agg[url][metric]) = RSub(current, prev_agg[url][metric])
    ELSE d = None

\* C6: every merged record carries the four delta fields; each is
\* (current - previous) / previous when the previous value of its metric is > 0
\* and null when that value is <= 0 or the URL has no previous data, whatever
\* the other three are.
C6_DeltasNullSafe ==
    Merged =>
        \A i \in DOMAIN merged_pages :
            LET r == merged_pages[i]
                u == r["url"]
            IN /\ {"gsc_clicks_delta_pct", "gsc_impressions_delta_pct",
                   "ga4_sessions_delta_pct", "ga4_conversions_delta_pct"}
                      \subseteq DOMAIN r
               /\ DeltaIs(r["gsc_clicks_delta_pct"],
                          CurrentOf(gsc_current, u, "gsc_clicks"),
                          PrevArg(gsc_previous), u, "gsc_clicks")
               /\ DeltaIs(r["gsc_impressions_delta_pct"],
                          CurrentOf(gsc_current, u, "gsc_impressions"),
                          PrevArg(gsc_previous), u, "gsc_impressions")
               /\ DeltaIs(r["ga4_sessions_delta_pct"],
                          CurrentOf(ga4_current, u, "ga4_sessions"),
                          PrevArg(ga4_previous), u, "ga4_sessions")
               /\ DeltaIs(r["ga4_conversions_delta_pct"],
                          CurrentOf(ga4_current, u, "ga4_conversions"),
                          PrevArg(ga4_previous), u, "ga4_conversions")

\* a record whose previous clicks are 0 and whose previous impressions are not:
\* one delta null, the next one a number; and a record without previous data
C6_Witness ==
    /\ Merged
    /\ \E i \in DOMAIN merged_pages :
           LET r == merged_pages[i]
           IN /\ "gsc_prev_clicks" \in DOMAIN r
              /\ r["gsc_prev_clicks"] = Zero
              /\ r["gsc_clicks_delta_pct"] = None
              /\ r["gsc_impressions_delta_pct"] # None
    /\ \E i \in DOMAIN merged_pages :
           LET r == merged_pages[i]
           IN /\ "gsc_clicks" \in DOMAIN r
              /\ "gsc_prev_clicks" \notin DOMAIN r
              /\ r["gsc_clicks_delta_pct"] = None
    /\ \E i \in DOMAIN merged_pages :
           /\ merged_pages[i]["ga4_sessions_delta_pct"] # None
           /\ RLt(merged_pages[i]["ga4_sessions_delta_pct"], Zero)

\* C7: in a merged record gsc_prev_clicks and gsc_prev_impressions are present iff
\* the URL is a key of the previous search aggregate, ga4_prev_sessions and
\* ga4_prev_conversions iff it is a key of the previous traffic aggregate; the
\* fields are absent otherwise, not 0.
C7_PrevFieldsIffPrevious ==
    Merged =>
        \A i \in DOMAIN merged_pages :
            LET r == merged_pages[i]
                in_g == r["url"] \in DOMAIN PrevArg(gsc_previous)
                in_a == r["url"] \in DOMAIN PrevArg(ga4_previous)
            IN /\ "gsc_prev_clicks" \in DOMAIN r <=> in_g
               /\ "gsc_prev_impressions" \in DOMAIN r <=> in_g
               /\ "ga4_prev_sessions" \in DOMAIN r <=> in_a
               /\ "ga4_prev_conversions" \in DOMAIN r <=> in_a

\* a record with the previous search fields and without the previous traffic
\* fields, one the other way round, and one without any
C7_Witness ==
    /\ Merged
    /\ \E i \in DOMAIN merged_pages :
           /\ "gsc_prev_clicks" \in DOMAIN merged_pages[i]
           /\ "ga4_prev_sessions" \notin DOMAIN merged_pages[i]
    /\ \E i \in DOMAIN merged_pages :
           /\ "gsc_prev_clicks" \notin DOMAIN merged_pages[i]
           /\ "ga4_prev_sessions" \in DOMAIN merged_pages[i]
    /\ \E i \in DOMAIN merged_pages :
           /\ "gsc_prev_clicks" \notin DOMAIN merged_pages[i]
           /\ "ga4_prev_sessions" \notin DOMAIN merged_pages[i]

(***************************************************************************)
(* Claims about generate_action_items, under Spec                          *)
(***************************************************************************)
\* generate_action_items has returned
Generated == pc \in {"done", "returned"}

\* the merged pages that score > 0, as indices of merged_pages
PositivePages ==
    {i \in DOMAIN merged_pages : RLt(Zero, score_page(merged_pages[i], settings).score)}

\* the limit of the call: max_items if given, else the setting
Limit == IF max_items # None THEN max_items[1] ELSE settings.default_max_action_items

\* C8: generate_action_items returns its items in descending order of
\* (score, confidence): of two adjacent items the earlier has the higher score, or
\* the same score and a confidence not below the later one's.
C8_DescendingScoreConfidence ==
    Generated =>
        \A i \in DOMAIN items :
            i > 1 =>
                \/ RLt(items[i].score, items[i - 1].score)
                \/ /\ items[i].score = items[i - 1].score
                   /\ RLe(items[i].confidence, items[i - 1].confidence)

\* two adjacent items with the same score and different confidence, the earlier
\* one for the URL that comes later in the merged pages
C8_Witness ==
    /\ Generated
    /\ \E i \in DOMAIN items :
           /\ i > 1
           /\ items[i].score = items[i - 1].score
           /\ RLt(items[i].confidence, items[i - 1].confidence)
           /\ StrLess(items[i].url, items[i - 1].url)

\* C9: with P the number of merged records scoring > 0, the output has exactly
\* min(P, max(1, limit)) items, every item has score > 0, and no positive-score
\* record left out outranks an emitted one in (score, confidence).
C9_FilterAndTruncate ==
    Generated =>
        LET P == Cardinality(PositivePages)
            floor == IF Limit >= 1 THEN Limit ELSE 1
            emitted == {items[k].url : k \in DOMAIN items}
        IN /\ Len(items) = IF P <= floor THEN P ELSE floor
           /\ \A k \in DOMAIN items : RLt(Zero, items[k].score)
           /\ \A i \in PositivePages :
                  merged_pages[i]["url"] \notin emitted =>
                      LET o == score_page(merged_pages[i], settings)
                      IN \A k \in DOMAIN items :
                             \/ RLt(o.score, items[k].score)
                             \/ /\ o.score = items[k].score
                                /\ RLe(o.confidence, items[k].confidence)

\* a limit of 0 or less with two or more records scoring > 0 and a record scoring
\* 0: the floor of 1 decides, one item is emitted
C9_Witness ==
    /\ Generated
    /\ Limit <= 0
    /\ Cardinality(PositivePages) >= 2
    /\ Cardinality(PositivePages) < Len(merged_pages)
    /\ Len(items) = 1

\* C10 as claimed: every action item has a primary category that is the first
\* element of its category list, item.category = item.categories[0].
C10_CategoryIsFirst ==
    Generated =>
        \A k \in DOMAIN items :
            /\ items[k].categories # <<>>
            /\ items[k].category = items[k].categories[1]

\* C10 as amended: the primary category is the first element of the item's category
\* list when that list is not empty, and "opportunity" when it is empty.
C10_CategoryIsFirstOrOpportunity ==
    Generated =>
        \A k \in DOMAIN items :
            IF items[k].categories # <<>>
            THEN items[k].category = items[k].categories[1]
            ELSE items[k].category = "opportunity"

\* an item with two categories or more next to an item without any
C10_Witness ==
    /\ Generated
    /\ \E k \in DOMAIN items : Len(items[k].categories) >= 2
    /\ \E k \in DOMAIN items :
           items[k].categories = <<>> /\ items[k].category = "opportunity"

(***************************************************************************)
(* Claims about the ranking and the scorer, under Spec.                    *)
(***************************************************************************)
\* C11: the ranked output is determined by the data, not by the order of the
\* input: generate_action_items returns the identical list for every permutation
\* of the merged records, also when two records tie on (score, confidence).
C11_InputOrderIrrelevant ==
    Generated =>
        \A p \in Permutations(DOMAIN merged_pages) :
            generate_action_items(Permuted(merged_pages, p), settings, max_items)
                = items

(***************************************************************************)
(* Specification SpecScore: score_page applied to one merged record under  *)
(* one Settings object.  The record carries the fields score_page reads;   *)
(* a record of a URL that a source does not report lacks that source's     *)
(* fields, as merge_page_metrics leaves it.                                *)
(***************************************************************************)
\* the search fields of a merged record
ScoreGscParts ==
    {EmptyDict} \cup
    { [gsc_clicks |-> R(50), gsc_impressions |-> R(i), gsc_ctr |-> c,
       gsc_position |-> p] :
         i \in {100, 200, 2200}, c \in {Rat(1, 100), Rat(1, 50), Rat(3, 100)},
         p \in {R(4), Rat(8003, 1000), Rat(1833, 125)} }

\* the traffic fields of a merged record
ScoreGa4Parts ==
    {EmptyDict} \cup
    { [ga4_sessions |-> R(n), ga4_conversion_rate |-> c,
       ga4_engagement_rate |-> Rat(1, 2)] :
         n \in {50, 100}, c \in {Rat(1, 100), Rat(1, 50)} }

\* the two deltas score_page reads; None when there is no previous value
ScoreDeltaParts ==
    { [gsc_clicks_delta_pct |-> c, ga4_sessions_delta_pct |-> n] :
         c \in {None, Rat(-1, 5), Rat(-1, 2), Rat(1, 10)},
         n \in {None, Rat(-6, 11), Rat(-1, 10)} }

ScoreRecords ==
    { [url |-> U_ax] @@ g @@ a @@ d :
         g \in ScoreGscParts, a \in ScoreGa4Parts, d \in ScoreDeltaParts }

ScoreSettings ==
    { DefaultSettings,
      [DefaultSettings EXCEPT !.min_sessions_for_conversion_action = 100,
                              !.target_ctr = Rat(1, 100)] }

InitScore ==
    /\ pc = "score"
    /\ settings \in ScoreSettings
    /\ record \in ScoreRecords
    /\ scored = None
    /\ include_previous_period = Idle /\ max_rows = Idle
    /\ gsc_current = Idle /\ ga4_current = Idle
    /\ gsc_previous = Idle /\ ga4_previous = Idle
    /\ merged_pages = Idle /\ max_items = Idle /\ items = Idle
    /\ priorities = Idle /\ returned_items = Idle
    /\ base_url = Idle
    /\ url_idle
    /\ agg_idle
    /\ tool_idle
    /\ conn_idle
    /\ page_idle
    /\ range_idle

\* scoring.py line 52-181: score_page(record, settings)
ScorePage ==
    /\ pc = "score"
    /\ pc' = "scored"
    /\ scored' = score_page(record, settings)
    /\ UNCHANGED <<record, base_url, url_vars, agg_vars, report_vars, tool_vars,
                   conn_vars, page_vars, range_vars>>

NextScore == ScorePage

SpecScore == InitScore /\ [][NextScore]_vars

Scored == pc = "scored"

\* what score_page reads from the record (scoring.py line 58-68)
RecordValue(key) == DictGet(record, key, Zero)

RecordDelta(key) == DictGet(record, key, None)

Declined(delta) == delta # None /\ RLe(delta, Rat(-1, 5))

VolumeMet ==
    /\ RLe(R(settings.min_impressions_for_ctr_action), RecordValue("gsc_impressions"))
    /\ RLe(R(settings.min_sessions_for_conversion_action), RecordValue("ga4_sessions"))

\* C12: the category tags of a score result are exactly the tags of the rules whose
\* trigger holds (CTR gap, conversion gap, decline of clicks or of sessions, scale
\* winner); a record with both volumes at their minimums and both rates below
\* target yields exactly conversion_optimization and ctr_optimization, plus
\* content_refresh only on a decline, and a score > 0.
C12_CategoriesMatchRules ==
    Scored =>
        LET cats == Range(scored.categories)
            ctr_low == RLt(RecordValue("gsc_ctr"), settings.target_ctr)
            cr_low == RLt(RecordValue("ga4_conversion_rate"),
                          settings.target_conversion_rate)
            decline == \/ Declined(RecordDelta("gsc_clicks_delta_pct"))
                       \/ Declined(RecordDelta("ga4_sessions_delta_pct"))
        IN /\ cats \subseteq {"ctr_optimization", "conversion_optimization",
                              "content_refresh", "scale_winner"}
           /\ "ctr_optimization" \in cats <=>
                  /\ RLe(R(settings.min_impressions_for_ctr_action),
                         RecordValue("gsc_impressions"))
                  /\ ctr_low
           /\ "conversion_optimization" \in cats <=>
                  /\ RLe(R(settings.min_sessions_for_conversion_action),
                         RecordValue("ga4_sessions"))
                  /\ cr_low
           /\ "content_refresh" \in cats <=> decline
           /\ "scale_winner" \in cats <=> VolumeMet /\ ~ctr_low /\ ~cr_low
           /\ VolumeMet /\ ctr_low /\ cr_low =>
                  /\ cats \ {"content_refresh"}
                         = {"conversion_optimization", "ctr_optimization"}
                  /\ RLt(Zero, scored.score)

\* a scale winner that also declined: two tags from rules of different kinds
C12_Witness ==
    /\ Scored
    /\ scored.categories = <<"content_refresh", "scale_winner">>
    /\ VolumeMet

\* the tier a reported score falls in, for the boundaries high and medium
TierOf(score, high, medium) ==
    IF RLe(R(high), score) THEN "high"
    ELSE IF RLe(R(medium), score) THEN "medium"
    ELSE "low"

\* C13: the tiers of every score result agree with the score it reports: priority
\* is high from 70, medium from 40 and low below; expected_impact is high from 70,
\* medium from 45 and low below, also next to a boundary.
C13_TiersAgreeWithScore ==
    Scored =>
        /\ scored.priority = TierOf(scored.score, 70, 40)
        /\ scored.expected_impact = TierOf(scored.score, 70, 45)

\* min(0.25, log10(v + 1) / 10) for a positive volume, 0 otherwise
VolumeFactor(v) ==
    IF RLt(Zero, v) THEN RMin(Rat(1, 4), RDiv(log10(RAdd(v, R(1))), R(10)))
    ELSE Zero

SourceCount(impressions, sessions) ==
    (IF RLt(Zero, impressions) THEN 1 ELSE 0) + (IF RLt(Zero, sessions) THEN 1 ELSE 0)

\* C14: the confidence of every score result lies in [0, 1] and equals
\* min(1, 0.35 + 0.2 * source_count + volume_factor), source_count counting which
\* of impressions > 0 and sessions > 0 hold and volume_factor adding
\* min(0.25, log10(v + 1) / 10) for each of the two volumes that is positive.
C14_ConfidenceFormula ==
    Scored =>
        LET impressions == RecordValue("gsc_impressions")
            sessions == RecordValue("ga4_sessions")
        IN /\ RLe(Zero, scored.confidence)
           /\ RLe(scored.confidence, R(1))
           /\ scored.confidence =
                  RMin(R(1),
                       RAdd(RAdd(Rat(35, 100),
                                 RMul(Rat(1, 5), R(SourceCount(impressions, sessions)))),
                            RAdd(VolumeFactor(impressions), VolumeFactor(sessions))))

\* C15: confidence is independent of score: two merged records with equal
\* gsc_impressions and equal ga4_sessions get the same confidence under the same
\* settings, whatever their rates, position and deltas are, also when one of
\* them triggers no rule.
C15_ConfidenceIndependentOfScore ==
    Scored =>
        \A other \in ScoreRecords :
            /\ DictGet(other, "gsc_impressions", Zero) = RecordValue("gsc_impressions")
            /\ DictGet(other, "ga4_sessions", Zero) = RecordValue("ga4_sessions")
            => score_page(other, settings).confidence = scored.confidence

\* the zero result of score_page, but for its confidence
IsCanonical(res) ==
    /\ res.score = Zero
    /\ res.categories = <<>> /\ res.reasons = <<>> /\ res.recommendations = <<>>
    /\ res.priority = "low" /\ res.expected_impact = "low" /\ res.effort = "low"

\* a rule that tags a category triggers for the record
CategoryRuleTriggers ==
    \/ /\ RLe(R(settings.min_impressions_for_ctr_action), RecordValue("gsc_impressions"))
       /\ RLt(RecordValue("gsc_ctr"), settings.target_ctr)
    \/ /\ RLe(R(settings.min_sessions_for_conversion_action), RecordValue("ga4_sessions"))
       /\ RLt(RecordValue("ga4_conversion_rate"), settings.target_conversion_rate)
    \/ Declined(RecordDelta("gsc_clicks_delta_pct"))
    \/ Declined(RecordDelta("ga4_sessions_delta_pct"))
    \/ /\ VolumeMet
       /\ RLe(settings.target_ctr, RecordValue("gsc_ctr"))
       /\ RLe(settings.target_conversion_rate, RecordValue("ga4_conversion_rate"))

\* the position bonus is added for the record
PositionBonusTriggers ==
    RLt(R(8), RecordValue("gsc_position")) /\ RLt(Zero, RecordValue("gsc_impressions"))

\* C16 as stated: when no rule triggers, score_page returns the canonical zero
\* result (score 0, empty lists, every tier low), and every non-canonical result
\* has score > 0 or a non-empty category list.
C16_ZeroResultIffNoRule ==
    Scored =>
        /\ ~CategoryRuleTriggers /\ ~PositionBonusTriggers => IsCanonical(scored)
        /\ ~IsCanonical(scored) =>
               RLt(Zero, scored.score) \/ scored.categories # <<>>

\* C16 amended: the result is the canonical zero result exactly when no rule
\* triggers; every other result has a non-empty reason list and a score >= 0, the
\* sum rounded to two decimals, which can be 0.
C16_ZeroResultIffNoRuleRounded ==
    Scored =>
        /\ IsCanonical(scored) <=> ~CategoryRuleTriggers /\ ~PositionBonusTriggers
        /\ ~IsCanonical(scored) =>
               scored.reasons # <<>> /\ RLe(Zero, scored.score)

\* a position bonus of 0.0045 alone: a result that is not the zero result and
\* reports score 0 with no category
C16_Witness ==
    /\ Scored
    /\ ~IsCanonical(scored)
    /\ scored.score = Zero
    /\ scored.categories = <<>>
    /\ PositionBonusTriggers

(***************************************************************************)
(* Further claims about the aggregators, under SpecAgg.                    *)
(***************************************************************************)
\* C17: ratio metrics never divide by zero: a bucket whose impressions total is
\* <= 0 gets gsc_ctr = 0 and gsc_position = 0, and a bucket whose sessions total
\* is <= 0 gets ga4_engagement_rate = 0 and ga4_conversion_rate = 0.
C17_ZeroWeightRatioIsZero ==
    /\ pc = "gsc_done" =>
          \A url \in DOMAIN pages :
              RLe(pages[url].gsc_impressions, Zero) =>
                  pages[url].gsc_ctr = Zero /\ pages[url].gsc_position = Zero
    /\ pc = "ga4_done" =>
          \A url \in DOMAIN pages :
              RLe(pages[url].ga4_sessions, Zero) =>
                  /\ pages[url].ga4_engagement_rate = Zero
                  /\ pages[url].ga4_conversion_rate = Zero

\* a bucket of one row with impressions -5 and CTR 0.2, and a bucket of rows with
\* impressions 0 and clicks
C17_Witness ==
    /\ pc = "gsc_done"
    /\ \E url \in DOMAIN pages : RLt(pages[url].gsc_impressions, Zero)
    /\ \E url \in DOMAIN pages :
          pages[url].gsc_impressions = Zero /\ RLt(Zero, pages[url].gsc_clicks)

(***************************************************************************)
(* Further claims about normalize_url, under SpecUrl.                      *)
(***************************************************************************)
Normalized == pc \in {"url_once", "url_done"}

\* what normalize_url parses: the stripped value, resolved against base_url
ParsedParts == urlsplit(normalize_text(Strip(value), base_url), <<>>)

\* the path of the result: the result itself when it is a bare path
ResultPath ==
    IF ParsedParts.netloc = <<>> THEN url_once ELSE urlsplit(url_once, <<>>).path

\* the number of leading characters of text that spell its scheme and its host:
\* "scheme:" when text has a scheme, then "//host" when a host follows
SchemeHostLen(text) ==
    LET parts == urlsplit(text, <<>>)
        n == IF parts.scheme = <<>> THEN 0 ELSE Len(parts.scheme) + 1
    IN IF StartsWith(From(text, n + 1), <<"/", "/">>)
       THEN n + 2 + Len(parts.netloc)
       ELSE n

\* text with its scheme and host in lower case
LowerSchemeHost(text) ==
    Lower(SubSeq(text, 1, SchemeHostLen(text))) \o From(text, SchemeHostLen(text) + 1)

UpperOnly(text) == SelectSeq(text, LAMBDA c : c \in Range(UpperLetters))

\* C18: normalize_url is case-insensitive in scheme and host and case-preserving in
\* path: an input normalizes to the same string as the input with its scheme and
\* host in lower case, for every base_url and flags, and the upper-case letters of
\* the parsed path are those of the result's path.
C18_CaseInsensitiveSchemeHost ==
    Normalized =>
        /\ normalize_url(LowerSchemeHost(Strip(value)), base_url, drop_query,
                         drop_fragment, remove_www) = url_once
        /\ Strip(value) # <<>> => UpperOnly(ResultPath) = UpperOnly(ParsedParts.path)

\* C19: for every input that is not empty once stripped, the path in the result is
\* never empty: an empty path becomes "/", the path "/" is kept, a longer path
\* ending in "/" loses exactly its last character (so a path ending in "//" still
\* ends in "/"), and any other path is kept.
C19_PathNeverEmpty ==
    Normalized /\ Strip(value) # <<>> =>
        LET path == ParsedParts.path
        IN /\ ResultPath # <<>>
           /\ path = <<>> => ResultPath = <<"/">>
           /\ path = <<"/">> => ResultPath = <<"/">>
           /\ Len(path) > 1 =>
                  ResultPath = IF path[Len(path)] = "/"
                               THEN SubSeq(path, 1, Len(path) - 1)
                               ELSE path

\* a host followed by a path ending in "//": the result's path still ends in "/"
C19_Witness ==
    /\ Normalized
    /\ ParsedParts.netloc # <<>>
    /\ Len(ParsedParts.path) > 2
    /\ EndsWith(ParsedParts.path, <<"/", "/">>)
    /\ EndsWith(ResultPath, <<"/">>)

\* the dimension list normalize_gsc_rows_by_page works with: ["page"] by default
GscDimensionList == IF dimensions = <<>> THEN <<"page">> ELSE dimensions

\* the positions of the URL dimension "page" in the dimension list
PagePositions == {i \in DOMAIN GscDimensionList : GscDimensionList[i] = "page"}

RowKeys(row) == IF "keys" \in DOMAIN row THEN row["keys"] ELSE <<>>

\* the row carries a value of the URL dimension that is not empty
HasUrlValue(row) ==
    /\ PagePositions # {}
    /\ SetMin(PagePositions) <= Len(RowKeys(row))
    /\ Strip(RowKeys(row)[SetMin(PagePositions)]) # <<>>

\* C20: normalize_gsc_rows_by_page skips every row without a resolvable URL
\* dimension (key tuple empty, shorter than the position of the URL dimension, or
\* with an empty URL value): the result is that of the batch without those rows;
\* and whatever the dimension list is, also one without "page", every bucket key
\* is the normalized value of the URL dimension of some row.
C20_UnresolvableRowsSkipped ==
    pc = "gsc_done" =>
        /\ normalize_gsc_rows_by_page(SelectSeq(rows, HasUrlValue), dimensions, base_url)
               = pages
        /\ \A url \in DOMAIN pages :
               \E i \in DOMAIN rows :
                   /\ HasUrlValue(rows[i])
                   /\ url = normalize_url(RowKeys(rows[i])[SetMin(PagePositions)],
                                          base_url, TRUE, TRUE, FALSE)

(***************************************************************************)
(* Further claims about score_page, under SpecScore.                       *)
(***************************************************************************)
\* impressions the record is compared with, all other fields fixed
ImpressionsGrid == {100, 200, 250, 2200, 2500}

\* the record with other impressions
WithImpressions(v) == [record EXCEPT !["gsc_impressions"] = R(v)]

\* the CTR-gap contribution to the score of a record (scoring.py line 70-73)
CtrComponent(rec) == score_rules(rec, settings).ctr_score

CtrBelowTarget ==
    "gsc_ctr" \in DOMAIN record /\ RLt(record["gsc_ctr"], settings.target_ctr)

\* log10(v + 1) * 6 has not reached the cap of 20 of the log bonus
LogBonusBelowCap(v) == RLt(RMul(log10(RAdd(v, R(1))), R(6)), R(20))

\* C21 as stated: with ctr fixed below target, the CTR-gap component does not
\* decrease when impressions grow, and it grows strictly, from the minimum of
\* impressions on, whenever it is below its cap of 45.
C21_CtrComponentMonotone ==
    Scored /\ CtrBelowTarget =>
        \A v \in ImpressionsGrid :
            RLt(record["gsc_impressions"], R(v)) =>
                /\ RLe(CtrComponent(record), CtrComponent(WithImpressions(v)))
                /\ /\ RLe(R(settings.min_impressions_for_ctr_action),
                          record["gsc_impressions"])
                   /\ RLt(CtrComponent(record), R(45))
                   => RLt(CtrComponent(record), CtrComponent(WithImpressions(v)))

\* C21 amended: the component does not decrease, and it grows strictly whenever it
\* is below 45 and the log bonus of the smaller impressions is below its cap of 20.
C21_CtrComponentMonotoneToLogCap ==
    Scored /\ CtrBelowTarget =>
        \A v \in ImpressionsGrid :
            RLt(record["gsc_impressions"], R(v)) =>
                /\ RLe(CtrComponent(record), CtrComponent(WithImpressions(v)))
                /\ /\ RLe(R(settings.min_impressions_for_ctr_action),
                          record["gsc_impressions"])
                   /\ RLt(CtrComponent(record), R(45))
                   /\ LogBonusBelowCap(record["gsc_impressions"])
                   => RLt(CtrComponent(record), CtrComponent(WithImpressions(v)))

\* impressions 2200 with ctr 0.02 against a target of 0.03: the component is
\* 15 + 20 = 35, below 45, and stays 35 for impressions 2500
C21_Witness ==
    /\ Scored
    /\ CtrBelowTarget
    /\ record["gsc_impressions"] = R(2200)
    /\ CtrComponent(record) = R(35)
    /\ CtrComponent(WithImpressions(2500)) = R(35)
    /\ "ctr_optimization" \in Range(scored.categories)

\* the characters of a category tag
CategoryChars(c) ==
    CASE c = "ctr_optimization" ->
             <<"c","t","r","_","o","p","t","i","m","i","z","a","t","i","o","n">>
      [] c = "conversion_optimization" ->
             <<"c","o","n","v","e","r","s","i","o","n","_",
               "o","p","t","i","m","i","z","a","t","i","o","n">>
      [] c = "content_refresh" ->
             <<"c","o","n","t","e","n","t","_","r","e","f","r","e","s","h">>
      [] c = "scale_winner" ->
             <<"s","c","a","l","e","_","w","i","n","n","e","r">>

\* the reasons in the order of the rules: CTR gap, conversion gap, click decline,
\* session decline, scale winner, position bonus
RuleOrderReasons ==
    <<ReasonCtr, ReasonCr, ReasonClicks, ReasonSessions, ReasonScale, ReasonPosition>>

\* the recommendations in the order of the rules
RuleOrderRecommendations == RecsCtr \o RecsCr \o RecsClicks \o RecsSessions \o RecsScale

\* q lists elements of order, each once, in the order they have in order
InOrderOf(q, order) ==
    /\ Range(q) \subseteq Range(order)
    /\ \A i, j \in DOMAIN q :
           i < j => \E m, n \in DOMAIN order :
                        m < n /\ order[m] = q[i] /\ order[n] = q[j]

\* C22: in every score result the category list is sorted ascending without
\* duplicates (content_refresh once, also when both decline rules fire), and the
\* reason and recommendation lists have no duplicates and keep the order in which
\* the rules produced them.
C22_ListsSortedDeduplicated ==
    Scored =>
        /\ \A i, j \in DOMAIN scored.categories :
               i < j => StrLess(CategoryChars(scored.categories[i]),
                                CategoryChars(scored.categories[j]))
        /\ InOrderOf(scored.reasons, RuleOrderReasons)
        /\ InOrderOf(scored.recommendations, RuleOrderRecommendations)

\* both decline rules fire next to the conversion gap and the position bonus
C22_Witness ==
    /\ Scored
    /\ Declined(RecordDelta("gsc_clicks_delta_pct"))
    /\ Declined(RecordDelta("ga4_sessions_delta_pct"))
    /\ scored.categories = <<"content_refresh", "conversion_optimization">>
    /\ scored.reasons = <<ReasonCr, ReasonClicks, ReasonSessions, ReasonPosition>>
    /\ scored.recommendations = RecsCr \o RecsClicks \o RecsSessions

(***************************************************************************)
(* Claims about the report tools, under Spec                               *)
(***************************************************************************)
\* a call left what it was given alone: it wrote to no object reachable from
\* an argument, and nothing reachable from what it returned is reachable from
\* an argument
NoInputTouched(e) == e.written \cap e.args = {} /\ e.result \cap e.args = {}

\* the variables that hold the arguments of the calls of a step keep their values
ArgumentsKept ==
    /\ pc = "merge" =>
           UNCHANGED <<gsc_current, ga4_current, gsc_previous, ga4_previous>>
    /\ pc \in {"items", "done"} => UNCHANGED <<merged_pages, settings>>

NeitherPages == SelectSeq(merged_pages, LAMBDA p : ~has_gsc(p) /\ ~has_ga4(p))

\* the names of the counts that build_data_quality_report is said to report for
\* the buckets with a source
SourceCounts ==
    {"total_merged_pages", "pages_with_gsc", "pages_with_ga4", "pages_with_both",
     "gsc_only_pages", "ga4_only_pages"}

\* the count the report gives for the bucket with neither source: the one
\* further entry of its counts, and nothing (0 pages) when there is none
ReportedNeither ==
    LET further == DOMAIN report.counts \ SourceCounts
    IN IF further = {} THEN 0 ELSE report.counts[CHOOSE k \in further : TRUE]

\* the sums of the counts of the buckets with a source
QualityCountsAddUp ==
    /\ report.counts.pages_with_gsc =
           report.counts.pages_with_both + report.counts.gsc_only_pages
    /\ report.counts.pages_with_ga4 =
           report.counts.pages_with_both + report.counts.ga4_only_pages
    /\ report.counts.pages_with_both + report.counts.gsc_only_pages
           + report.counts.ga4_only_pages + Len(NeitherPages) = Len(merged_pages)

\* top lists at most top_n records of bucket, in descending order of field
TopOfBucket(top, bucket, field) ==
    /\ Len(top) <= top_n
    /\ \A i \in DOMAIN top :
          \E j \in DOMAIN bucket :
             /\ bucket[j]["url"] = top[i]["url"]
             /\ top[i][field] = Round(float_of(bucket[j], field), 100)
    /\ \A i, j \in DOMAIN top : i < j => RLe(top[j][field], top[i][field])

\* the top examples of the two mismatch buckets
QualityTopsRanked ==
    /\ TopOfBucket(report.top_gsc_only_pages,
           SelectSeq(merged_pages, LAMBDA p : has_gsc(p) /\ ~has_ga4(p)),
           "gsc_impressions")
    /\ TopOfBucket(report.top_ga4_only_pages,
           SelectSeq(merged_pages, LAMBDA p : has_ga4(p) /\ ~has_gsc(p)),
           "ga4_sessions")

\* C24: build_data_quality_report partitions the merged URLs into search-only,
\* traffic-only, both and neither, and reports all four buckets:
\* pages_with_gsc = pages_with_both + gsc_only_pages, pages_with_ga4 =
\* pages_with_both + ga4_only_pages, total_merged_pages = pages_with_both +
\* gsc_only_pages + ga4_only_pages + the reported count of neither; the top
\* examples of each mismatch bucket are at most top_n_unmatched records of the
\* bucket in descending order of the metric that is present.
C24_CoverageReported ==
    pc = "quality" =>
        /\ QualityCountsAddUp
        /\ report.counts.total_merged_pages =
               report.counts.pages_with_both + report.counts.gsc_only_pages
               + report.counts.ga4_only_pages + ReportedNeither
        /\ QualityTopsRanked

\* the part of C24 that is about the buckets that have a source
C24_SourceBucketsReported == pc = "quality" => QualityCountsAddUp /\ QualityTopsRanked

\* the records listed by a list of the trend report
ListedRecords(list) ==
    SelectSeq(merged_pages,
              LAMBDA p : \E i \in DOMAIN list : list[i]["url"] = p["url"])

\* the numeric records a list of the trend report leaves out
ExcludedRecords(list, delta_field) ==
    SelectSeq(numeric_rows(merged_pages, delta_field),
              LAMBDA p : \A i \in DOMAIN list : list[i]["url"] # p["url"])

\* a comes before b, or with it, in a list of gainers (or of decliners)
InTrendOrder(a, b, gainers) == IF gainers THEN RLe(b, a) ELSE RLe(a, b)

\* list is a gainer (or decliner) list of the trend report for delta_field
TrendList(list, delta_field, gainers) ==
    /\ Len(list) <= top_n
    /\ Len(ListedRecords(list)) = Len(list)
    /\ \A i \in DOMAIN list :
          \E j \in DOMAIN merged_pages :
             /\ merged_pages[j]["url"] = list[i]["url"]
             /\ DictGet(merged_pages[j], delta_field, None) # None
             /\ list[i][delta_field] = Round(merged_pages[j][delta_field], 10000)
    /\ \A i, j \in DOMAIN list :
          i < j => InTrendOrder(list[i][delta_field], list[j][delta_field], gainers)
    /\ \A i \in DOMAIN ListedRecords(list) :
          \A j \in DOMAIN ExcludedRecords(list, delta_field) :
             InTrendOrder(ListedRecords(list)[i][delta_field],
                          ExcludedRecords(list, delta_field)[j][delta_field], gainers)

\* C25: in the report of build_trend_report every gainer and decliner list
\* holds only records whose delta is numeric, has at most top_n entries, and is
\* sorted by that delta, gainers descending and decliners ascending; no record
\* with a numeric delta that is left out has a larger delta than a listed
\* gainer or a smaller delta than a listed decliner.
C25_TrendListsRanked ==
    pc = "trend" =>
        /\ TrendList(report.click_gainers, "gsc_clicks_delta_pct", TRUE)
        /\ TrendList(report.click_decliners, "gsc_clicks_delta_pct", FALSE)
        /\ TrendList(report.session_gainers, "ga4_sessions_delta_pct", TRUE)
        /\ TrendList(report.session_decliners, "ga4_sessions_delta_pct", FALSE)

\* a list is full, and a record with a numeric delta and one without are left out
C25_Witness ==
    /\ pc = "trend"
    /\ Len(report.click_gainers) = top_n
    /\ ExcludedRecords(report.click_gainers, "gsc_clicks_delta_pct") # <<>>
    /\ Len(numeric_rows(merged_pages, "gsc_clicks_delta_pct")) < Len(merged_pages)
    /\ report.click_gainers # report.click_decliners

(***************************************************************************)
(* Specification SpecConn: calls of _get_gsc_connector and                 *)
(* _get_ga4_connector, in any order.  The tools of the server are plain    *)
(* functions, called one at a time, so that a call is one step.            *)
(***************************************************************************)
\* the most calls of the two getters together
MaxCalls == 8

\* GSCConnector() / GA4Connector(): the n-th object of a class
new_instance(cls, made) ==
    [class |-> cls, id |-> 1 + Cardinality({i \in made : i.class = cls})]

\* get_connector with a bug: the handle is not looked at, every call constructs
get_connector_always_new(cls, enabled, handle, made, credentials) ==
    IF ~enabled
    THEN [handle |-> handle, made |-> made, raised |-> <<"RuntimeError">>,
          returned |-> None]
    ELSE IF credentials
         THEN [handle |-> <<new_instance(cls, made)>>,
               made |-> made \cup {new_instance(cls, made)},
               raised |-> None, returned |-> <<new_instance(cls, made)>>]
         ELSE [handle |-> handle, made |-> made, raised |-> <<"RuntimeError">>,
               returned |-> None]

\* server.py line 41-48 and 51-58: the flag is checked first; the connector is
\* constructed when the handle is None, and the constructor raises RuntimeError
\* (auth.py line 14-18) when no credentials are configured, leaving the handle
\* None; made is the set of the connectors constructed so far
get_connector(cls, enabled, handle, made, credentials) ==
    IF ~enabled
    THEN [handle |-> handle, made |-> made, raised |-> <<"RuntimeError">>,
          returned |-> None]
    ELSE IF handle = None
         THEN IF credentials
              THEN [handle |-> <<new_instance(cls, made)>>,
                    made |-> made \cup {new_instance(cls, made)},
                    raised |-> None, returned |-> <<new_instance(cls, made)>>]
              ELSE [handle |-> handle, made |-> made, raised |-> <<"RuntimeError">>,
                    returned |-> None]
         ELSE [handle |-> handle, made |-> made, raised |-> None, returned |-> handle]

\* the settings with the two feature flags set
ConnSettings ==
    {[DefaultSettings EXCEPT !.enable_gsc = g, !.enable_ga4 = a] :
        g \in BOOLEAN, a \in BOOLEAN}

\* all variables of the fetches but settings are unused
fetch_idle ==
    /\ include_previous_period = Idle /\ max_rows = Idle
    /\ gsc_current = Idle /\ ga4_current = Idle
    /\ gsc_previous = Idle /\ ga4_previous = Idle
    /\ merged_pages = Idle /\ max_items = Idle /\ items = Idle
    /\ priorities = Idle /\ returned_items = Idle

\* server.py line 32-34: the module is loaded
InitConn ==
    /\ pc = "serving"
    /\ settings \in ConnSettings
    /\ _gsc_connector = None
    /\ _ga4_connector = None
    /\ instances = {}
    /\ outcome = [call |-> "none", raised |-> None, returned |-> None]
    /\ calls = 0
    /\ fetch_idle
    /\ base_url = Idle
    /\ url_idle
    /\ agg_idle
    /\ score_idle
    /\ tool_idle
    /\ page_idle
    /\ range_idle

\* server.py line 41-48: a call of _get_gsc_connector
GetGscConnector ==
    /\ pc = "serving"
    /\ calls < MaxCalls
    /\ calls' = calls + 1
    /\ \E credentials \in BOOLEAN :
          LET got == get_connector("GSCConnector", settings.enable_gsc,
                                   _gsc_connector, instances, credentials)
          IN /\ _gsc_connector' = got.handle
             /\ instances' = got.made
             /\ outcome' = [call |-> "_get_gsc_connector", raised |-> got.raised,
                            returned |-> got.returned]
    /\ UNCHANGED <<pc, _ga4_connector, base_url, url_vars, agg_vars, report_vars,
                   score_vars, tool_vars, page_vars, range_vars>>

\* server.py line 51-58: a call of _get_ga4_connector
GetGa4Connector ==
    /\ pc = "serving"
    /\ calls < MaxCalls
    /\ calls' = calls + 1
    /\ \E credentials \in BOOLEAN :
          LET got == get_connector("GA4Connector", settings.enable_ga4,
                                   _ga4_connector, instances, credentials)
          IN /\ _ga4_connector' = got.handle
             /\ instances' = got.made
             /\ outcome' = [call |-> "_get_ga4_connector", raised |-> got.raised,
                            returned |-> got.returned]
    /\ UNCHANGED <<pc, _gsc_connector, base_url, url_vars, agg_vars, report_vars,
                   score_vars, tool_vars, page_vars, range_vars>>

NextConn == GetGscConnector \/ GetGa4Connector

SpecConn == InitConn /\ [][NextConn]_vars

\* the connectors of a class constructed so far
InstancesOf(cls) == {i \in instances : i.class = cls}

\* what holds of one getter: at most one connector of its class was ever
\* constructed, the handle is None or that connector, and the last call of the
\* getter returned that connector if it returned; with the flag off it raised
\* RuntimeError and nothing was constructed
HandleReused(getter, cls, enabled, handle) ==
    /\ Cardinality(InstancesOf(cls)) <= 1
    /\ handle # None => InstancesOf(cls) = {handle[1]}
    /\ handle = None => InstancesOf(cls) = {}
    /\ outcome.call = getter /\ outcome.returned # None =>
           /\ outcome.raised = None
           /\ InstancesOf(cls) = {outcome.returned[1]}
           /\ handle = outcome.returned
    /\ ~enabled =>
           /\ InstancesOf(cls) = {}
           /\ outcome.call = getter =>
                  outcome.raised = <<"RuntimeError">> /\ outcome.returned = None

\* C26: source-client handles are created on first use and reused: over any
\* sequence of calls of _get_gsc_connector (and of _get_ga4_connector) at most
\* one connector is ever constructed and every call that returns, returns that
\* one; with the feature flag off every call raises RuntimeError and no
\* connector is ever constructed.
C26_HandlesCreatedOnceAndReused ==
    pc = "serving" =>
        /\ HandleReused("_get_gsc_connector", "GSCConnector", settings.enable_gsc,
                        _gsc_connector)
        /\ HandleReused("_get_ga4_connector", "GA4Connector", settings.enable_ga4,
                        _ga4_connector)

\* both connectors exist and the last call, not one of the first three, was
\* answered with the connector of its class
C26_Witness ==
    /\ pc = "serving"
    /\ calls >= 4
    /\ Cardinality(instances) = 2
    /\ outcome.call = "_get_gsc_connector"
    /\ outcome.returned = _gsc_connector
    /\ _ga4_connector # None

(***************************************************************************)
(* Specifications SpecPaging and SpecPagingFair: the paging loops          *)
(* search_analytics_all (connectors/gsc.py) and run_report_all             *)
(* (connectors/ga4.py), one pass of the loop body per step.  The source    *)
(* answers a page request with any number of rows up to the limit asked.   *)
(***************************************************************************)
\* the largest page_size of a paging loop
MaxPageSize == 3

\* the largest max_rows of a paging loop
MaxPagedRows == 7

\* row_limit with a bug: a full page is asked for whatever is left of max_rows
row_limit_full_page(size, most, at) == size

\* gsc.py line 84 and ga4.py line 239: min(page_size, max_rows - start_row)
row_limit(size, most, at) == IF size < most - at THEN size ELSE most - at

\* the n rows of the answer to the k-th request
page_rows(k, n) == [i \in 1..n |-> [request |-> k, index |-> i]]

\* the request of a pass of the loop and the number of rows of its answer
page_request(at, limit, n) == [start_row |-> at, row_limit |-> limit, returned |-> n]

\* all variables of the fetches but max_rows are unused
paging_idle ==
    /\ settings = Idle /\ include_previous_period = Idle
    /\ gsc_current = Idle /\ ga4_current = Idle
    /\ gsc_previous = Idle /\ ga4_previous = Idle
    /\ merged_pages = Idle /\ max_items = Idle /\ items = Idle
    /\ priorities = Idle /\ returned_items = Idle

\* gsc.py line 72-73 and ga4.py line 227-229: a loop is entered
InitPaging ==
    /\ pc \in {"gsc_loop", "ga4_loop"}
    /\ page_size \in 1..MaxPageSize
    /\ max_rows \in 0..MaxPagedRows
    /\ start_row = 0
    /\ all_rows = <<>>
    /\ row_count = None
    /\ requests = <<>>
    /\ paging_idle
    /\ base_url = Idle
    /\ url_idle
    /\ agg_idle
    /\ score_idle
    /\ tool_idle
    /\ conn_idle
    /\ range_idle

\* gsc.py line 75-97: a pass of the loop of search_analytics_all, which ends
\* the loop (break) on an empty page and after a page shorter than page_size
GscRequestPage ==
    /\ pc = "gsc_loop"
    /\ start_row < max_rows
    /\ \E n \in 0..row_limit(page_size, max_rows, start_row) :
          /\ requests' = Append(requests,
                 page_request(start_row, row_limit(page_size, max_rows, start_row), n))
          /\ all_rows' = all_rows \o page_rows(Len(requests) + 1, n)
          /\ IF n = 0 \/ n < page_size
             THEN pc' = "gsc_returned" /\ start_row' = start_row
             ELSE pc' = pc /\ start_row' = start_row + n
    /\ UNCHANGED <<page_size, row_count, base_url, url_vars, agg_vars, report_vars,
                   score_vars, tool_vars, conn_vars, range_vars>>

\* gsc.py line 75 and 99-108: start_row < max_rows is false and the rows are
\* returned
GscReturn ==
    /\ pc = "gsc_loop"
    /\ ~(start_row < max_rows)
    /\ pc' = "gsc_returned"
    /\ UNCHANGED <<base_url, url_vars, agg_vars, report_vars, score_vars, tool_vars,
                   conn_vars, page_vars, range_vars>>

\* what a traffic report answers as its row_count: None, or a number
RowCountChoices == {None} \cup {<<c>> : c \in 0..MaxPagedRows}

\* ga4.py line 231-258: a pass of the loop of run_report_all, which ends the
\* loop on an empty page, after a page shorter than page_size, and when the
\* rows received reach the row_count of the answer
Ga4RequestPage ==
    /\ pc = "ga4_loop"
    /\ start_row < max_rows
    /\ \E n \in 0..row_limit(page_size, max_rows, start_row), rc \in RowCountChoices :
          /\ requests' = Append(requests,
                 page_request(start_row, row_limit(page_size, max_rows, start_row), n))
          /\ row_count' = rc
          /\ all_rows' = all_rows \o page_rows(Len(requests) + 1, n)
          /\ IF \/ n = 0
                \/ n < page_size
                \/ rc # None /\ Len(all_rows) + n >= rc[1]
             THEN pc' = "ga4_returned" /\ start_row' = start_row
             ELSE pc' = pc /\ start_row' = start_row + n
    /\ UNCHANGED <<page_size, base_url, url_vars, agg_vars, report_vars, score_vars,
                   tool_vars, conn_vars, range_vars>>

\* ga4.py line 231 and 260-271: offset < max_rows is false and the rows are
\* returned
Ga4Return ==
    /\ pc = "ga4_loop"
    /\ ~(start_row < max_rows)
    /\ pc' = "ga4_returned"
    /\ UNCHANGED <<base_url, url_vars, agg_vars, report_vars, score_vars, tool_vars,
                   conn_vars, page_vars, range_vars>>

NextPaging == GscRequestPage \/ GscReturn \/ Ga4RequestPage \/ Ga4Return

SpecPaging == InitPaging /\ [][NextPaging]_vars

\* the loop is straight-line code around a request that is answered: a pass
\* that can be taken is taken
SpecPagingFair == SpecPaging /\ WF_vars(NextPaging)

RECURSIVE ReceivedBefore(_)
\* the number of rows received from the first k requests
ReceivedBefore(k) == IF k = 0 THEN 0 ELSE ReceivedBefore(k - 1) + requests[k].returned

\* the loop has returned
PagingReturned == pc \in {"gsc_returned", "ga4_returned"}

\* what holds of the requests issued so far and the rows received
PagingBounded ==
    /\ Len(requests) * page_size < max_rows + page_size
    /\ \A k \in DOMAIN requests :
          /\ requests[k].start_row = ReceivedBefore(k - 1)
          /\ requests[k].row_limit <= max_rows - requests[k].start_row
          /\ requests[k].returned <= requests[k].row_limit
          /\ \A j \in DOMAIN requests :
                j < k => /\ requests[j].start_row < requests[k].start_row
                         /\ requests[j].returned = page_size
    /\ Len(all_rows) = ReceivedBefore(Len(requests))
    /\ Len(all_rows) <= max_rows
    /\ \A k \in DOMAIN requests :
          \A i \in 1..requests[k].returned :
             all_rows[requests[k].start_row + i] = [request |-> k, index |-> i]

\* C27: the paging loops search_analytics_all and run_report_all always
\* terminate and are bounded by max_rows: with page_size >= 1 and no answer
\* longer than the limit asked, each issues at most ceil(max_rows / page_size)
\* requests, asks for page k at the offset that is the number of rows received
\* from the pages before k (contiguous offsets, none asked twice), never asks
\* for more than max_rows minus that offset, issues no request after a page
\* that is empty or shorter than page_size, and returns the rows received in
\* request order, at most max_rows of them.
C27_PagingTerminatesBounded == []PagingBounded /\ <>PagingReturned

\* a loop has returned after three requests, the last of which was cut to what
\* max_rows left and was answered in full
C27_Witness ==
    /\ PagingReturned
    /\ Len(requests) = 3
    /\ requests[3].row_limit < page_size
    /\ requests[3].returned = requests[3].row_limit
    /\ Len(all_rows) = max_rows

(***************************************************************************)
(* A further claim about score_page, under SpecScore                       *)
(***************************************************************************)
\* the score of the record before it is rounded: the sum of the contributions
UnroundedScore ==
    RSum(<<score_rules(record, settings).ctr_score,
           score_rules(record, settings).cr_score,
           score_rules(record, settings).clicks_score,
           score_rules(record, settings).sessions_score,
           score_rules(record, settings).scale_score,
           score_rules(record, settings).position_score>>)

\* the category is one of the result
Tagged(category) == \E i \in DOMAIN scored.categories : scored.categories[i] = category

\* C28: in every score result scale_winner never comes together with
\* ctr_optimization or with conversion_optimization, whatever the settings, so
\* that the unrounded score lies between 0 and 162 = 45 + 45 + 30 + 30 + 12.
C28_ScaleWinnerExclusiveScoreBounded ==
    Scored =>
        /\ Tagged("scale_winner") =>
               ~Tagged("ctr_optimization") /\ ~Tagged("conversion_optimization")
        /\ RLe(Zero, UnroundedScore) /\ RLe(UnroundedScore, R(162))
        /\ RLe(Zero, scored.score) /\ RLe(scored.score, R(162))
        /\ scored.score = Zero \/ scored.score = Round(UnroundedScore, 100)

\* a scale winner that is also in decline and has the position bonus: the
\* largest score a scale winner can get is 35 + 30 + 30 + 12
C28_Witness ==
    /\ Scored
    /\ Tagged("scale_winner")
    /\ Tagged("content_refresh")
    /\ score_rules(record, settings).position_on
    /\ RLt(R(45), UnroundedScore)

(***************************************************************************)
(* Specification SpecRanges: current_and_previous_ranges (config.py) and   *)
(* the date ranges of _fetch_page_data (server.py).  A date is <<year,     *)
(* month, day>>; a date string is its characters.                          *)
(***************************************************************************)
\* datetime: a leap year
is_leap(y) == y % 4 = 0 /\ (y % 100 # 0 \/ y % 400 = 0)

\* datetime: the days of a month
days_in_month(y, m) ==
    IF m = 2 THEN (IF is_leap(y) THEN 29 ELSE 28)
    ELSE IF m \in {4, 6, 9, 11} THEN 30 ELSE 31

RECURSIVE days_before_month(_, _)
\* datetime: the days of a year before the first of a month
days_before_month(y, m) ==
    IF m = 1 THEN 0 ELSE days_before_month(y, m - 1) + days_in_month(y, m - 1)

\* datetime: the days before January 1st of a year
days_before_year(y) ==
    (y - 1) * 365 + (y - 1) \div 4 - (y - 1) \div 100 + (y - 1) \div 400

\* date.toordinal(): January 1st of year 1 is day 1
toordinal(d) == days_before_year(d[1]) + days_before_month(d[1], d[2]) + d[3]

\* datetime _ord2ymd: the month and day of the n-th day (from 0) of a year
ord2ymd_month(year, n, month) ==
    IF days_before_month(year, month) > n
    THEN <<year, month - 1, n - days_before_month(year, month - 1) + 1>>
    ELSE <<year, month, n - days_before_month(year, month) + 1>>

\* datetime _ord2ymd: the year is found from the cycles of 400, 100, 4 and 1
\* years; the last day of a cycle is a December 31st
ord2ymd_year(n400, n100, n4, n1, n) ==
    IF n1 = 4 \/ n100 = 4
    THEN <<n400 * 400 + n100 * 100 + n4 * 4 + n1, 12, 31>>
    ELSE ord2ymd_month(n400 * 400 + 1 + n100 * 100 + n4 * 4 + n1, n, (n + 50) \div 32)

\* date.fromordinal(n)
fromordinal(n) ==
    LET r400 == (n - 1) % 146097
        r100 == r400 % 36524
        r4 == r100 % 1461
    IN ord2ymd_year((n - 1) \div 146097, r400 \div 36524, r100 \div 1461,
                    r4 \div 365, r4 % 365)

\* d + timedelta(days=days)
date_add(d, days) == fromordinal(toordinal(d) + days)

\* the decimal digits of n, at least width of them
RECURSIVE zero_padded(_, _)
zero_padded(n, width) ==
    IF width <= 1 /\ n < 10 THEN <<DigitChars[n + 1]>>
    ELSE zero_padded(n \div 10, width - 1) \o <<DigitChars[(n % 10) + 1]>>

\* date.isoformat(): YYYY-MM-DD
isoformat(d) ==
    zero_padded(d[1], 4) \o <<"-">> \o zero_padded(d[2], 2) \o <<"-">>
    \o zero_padded(d[3], 2)

\* config.py line 25-26: datetime.strptime(value, "%Y-%m-%d").date()
parse_date(chars) ==
    <<DigitsToInt(Split(chars, "-")[1], 0), DigitsToInt(Split(chars, "-")[2], 0),
      DigitsToInt(Split(chars, "-")[3], 0)>>

\* config.py line 29-32: as_date(value, fallback)
as_date(chars, fallback) == IF chars = None THEN fallback ELSE parse_date(chars)

\* previous_start with a bug: the previous range is one day longer
previous_start_one_more(prev_end, span_days) == date_add(prev_end, -span_days)

\* config.py line 91: prev_end - timedelta(days=span_days - 1)
previous_start(prev_end, span_days) == date_add(prev_end, -(span_days - 1))

\* config.py line 82-96: the ranges of a current range from start to end
ranges_of(start, end) ==
    [current |-> <<isoformat(start), isoformat(end)>>,
     previous |->
         <<isoformat(previous_start(date_add(start, -1),
                                    toordinal(end) - toordinal(start) + 1)),
           isoformat(date_add(start, -1))>>]

\* config.py line 84-87: the start of the current range
range_start(start_text, end, lookback) ==
    IF start_text # None THEN parse_date(start_text)
    ELSE date_add(end, -(lookback - 1))

\* current_and_previous_ranges(start_date, end_date, lookback_days); now is
\* date.today()
current_and_previous_ranges(start_text, end_text, lookback, now) ==
    ranges_of(range_start(start_text, as_date(end_text, date_add(now, -1)), lookback),
              as_date(end_text, date_add(now, -1)))

\* server.py line 108-116: _default_dates(start_date, end_date); fromisoformat is
\* given a string that parse_date reads alike
_default_dates(start_text, end_text, lookback, now) ==
    LET resolved_end == IF end_text # None THEN end_text
                        ELSE isoformat(date_add(now, -1))
    IN IF start_text # None THEN <<start_text, resolved_end>>
       ELSE <<isoformat(date_add(parse_date(resolved_end), -(lookback - 1))),
              resolved_end>>

\* server.py line 128-133: the ranges of _fetch_page_data, whose current range
\* is set to the resolved dates as they are
fetch_ranges(start_text, end_text, lookback, now) ==
    [current_and_previous_ranges(_default_dates(start_text, end_text, lookback, now)[1],
                                 _default_dates(start_text, end_text, lookback, now)[2],
                                 lookback, now)
        EXCEPT !.current = _default_dates(start_text, end_text, lookback, now)]

\* the longest default_lookback_days
MaxLookbackDays == 31

\* the dates a range starts or ends on: around the end of a year, of a
\* February of a leap year and of a month of 31 days
RangeDates ==
    {<<2023, 12, 31>>, <<2024, 1, 1>>, <<2024, 2, 28>>, <<2024, 2, 29>>,
     <<2024, 3, 1>>, <<2024, 3, 31>>}

\* start_date and end_date as the tools pass them
DateArguments == {None} \cup {isoformat(d) : d \in RangeDates}

InitRanges ==
    /\ pc = "ranges"
    /\ start_date \in DateArguments
    /\ end_date \in DateArguments
    /\ today \in {<<2024, 1, 1>>, <<2024, 3, 1>>}
    /\ lookback_days \in {1, 28, MaxLookbackDays}
    /\ ranges = None
    /\ report_idle
    /\ base_url = Idle
    /\ url_idle
    /\ agg_idle
    /\ score_idle
    /\ tool_idle
    /\ conn_idle
    /\ page_idle

\* config.py line 76-96: a call of current_and_previous_ranges
CurrentAndPreviousRanges ==
    /\ pc = "ranges"
    /\ pc' = "ranged"
    /\ ranges' = current_and_previous_ranges(start_date, end_date, lookback_days, today)
    /\ UNCHANGED <<start_date, end_date, today, lookback_days, base_url, url_vars,
                   agg_vars, report_vars, score_vars, tool_vars, conn_vars, page_vars>>

\* server.py line 128-133: the ranges _fetch_page_data fetches for
FetchPageDataRanges ==
    /\ pc = "ranges"
    /\ pc' = "fetch_ranged"
    /\ ranges' = fetch_ranges(start_date, end_date, lookback_days, today)
    /\ UNCHANGED <<start_date, end_date, today, lookback_days, base_url, url_vars,
                   agg_vars, report_vars, score_vars, tool_vars, conn_vars, page_vars>>

NextRanges == CurrentAndPreviousRanges \/ FetchPageDataRanges

SpecRanges == InitRanges /\ [][NextRanges]_vars

\* the days of the calendar around the ranges
CalendarDays ==
    {d \in (2023..2024) \X (1..12) \X (1..31) : d[3] <= days_in_month(d[1], d[2])}

\* a is b or an earlier day
DateLe(a, b) ==
    \/ a[1] < b[1]
    \/ a[1] = b[1] /\ a[2] < b[2]
    \/ a[1] = b[1] /\ a[2] = b[2] /\ a[3] <= b[3]

\* the day after d
NextDay(d) ==
    IF d[3] < days_in_month(d[1], d[2]) THEN <<d[1], d[2], d[3] + 1>>
    ELSE IF d[2] < 12 THEN <<d[1], d[2] + 1, 1>>
    ELSE <<d[1] + 1, 1, 1>>

\* the days of a range of two date strings, both ends included
DaysOf(range) ==
    {d \in CalendarDays :
        DateLe(parse_date(range[1]), d) /\ DateLe(d, parse_date(range[2]))}

\* the ranges were returned
RangesReturned == pc \in {"ranged", "fetch_ranged"}

\* the end date of the call: the one given, or yesterday
EndGiven == IF end_date # None THEN parse_date(end_date) ELSE date_add(today, -1)

\* C29: for every start date <= end date the previous range returned by
\* current_and_previous_ranges has exactly as many days as the current range
\* and ends on the day before the current start, so that the two ranges neither
\* overlap nor leave a gap; with no start date the current range has exactly
\* lookback_days days and ends at the end date.
C29_PreviousRangeAdjacentSameLength ==
    RangesReturned =>
        /\ DateLe(parse_date(ranges.current[1]), parse_date(ranges.current[2])) =>
               /\ Cardinality(DaysOf(ranges.previous)) =
                      Cardinality(DaysOf(ranges.current))
               /\ NextDay(parse_date(ranges.previous[2])) =
                      parse_date(ranges.current[1])
               /\ DaysOf(ranges.previous) \cap DaysOf(ranges.current) = {}
        /\ start_date = None =>
               /\ Cardinality(DaysOf(ranges.current)) = lookback_days
               /\ parse_date(ranges.current[2]) = EndGiven
        /\ start_date # None => ranges.current[1] = start_date
        /\ ranges.current[2] = isoformat(EndGiven)

\* a current range that starts on March 1st of a leap year and has more days
\* than February: the previous range reaches back into January
C29_Witness ==
    /\ pc = "ranged"
    /\ parse_date(ranges.current[1]) = <<2024, 3, 1>>
    /\ parse_date(ranges.previous[2]) = <<2024, 2, 29>>
    /\ parse_date(ranges.previous[1])[2] = 1
    /\ Cardinality(DaysOf(ranges.current)) = MaxLookbackDays

(***************************************************************************)
(* A claim about URLs of the previous period only, under Spec              *)
(***************************************************************************)
\* the URLs that occur in a previous aggregate given to the merge and in no
\* current aggregate
PreviousOnlyUrls ==
    IF include_previous_period
    THEN (DOMAIN gsc_previous \cup DOMAIN ga4_previous)
         \ (DOMAIN gsc_current \cup DOMAIN ga4_current)
    ELSE {}

\* the value of a metric of a URL in an aggregate, 0 when it is not there
ValueIn(agg, url, field) == IF url \in DOMAIN agg THEN agg[url][field] ELSE Zero

\* the merged records of a URL
RecordsOf(url) == SelectSeq(merged_pages, LAMBDA p : p["url"] = url)

\* the fields of a record that do not come from a current aggregate
NonCurrentFields ==
    {"url", "gsc_prev_clicks", "gsc_prev_impressions", "ga4_prev_sessions",
     "ga4_prev_conversions", "gsc_clicks_delta_pct", "gsc_impressions_delta_pct",
     "ga4_sessions_delta_pct", "ga4_conversions_delta_pct"}

\* the search source (or the traffic source) had a positive value for the URL
\* in the previous period
GscWasPositive(url) ==
    \/ RLt(Zero, ValueIn(gsc_previous, url, "gsc_clicks"))
    \/ RLt(Zero, ValueIn(gsc_previous, url, "gsc_impressions"))

Ga4WasPositive(url) ==
    \/ RLt(Zero, ValueIn(ga4_previous, url, "ga4_sessions"))
    \/ RLt(Zero, ValueIn(ga4_previous, url, "ga4_conversions"))

\* the result of score_page has the category
ResultTagged(res, category) ==
    \E i \in DOMAIN res.categories : res.categories[i] = category

\* an item for the URL is among the items returned by generate_action_items
Emitted(url) == \E k \in DOMAIN items : items[k].url = url

\* what C30 says of the one record p of a URL of the previous period only
FlaggedAsLost(url, p) ==
    /\ DOMAIN p \subseteq NonCurrentFields
    /\ GscWasPositive(url) =>
           /\ p["gsc_clicks_delta_pct"] = R(-1)
           /\ p["gsc_impressions_delta_pct"] = R(-1)
           /\ score_rules(p, settings).clicks_score = R(30)
    /\ Ga4WasPositive(url) =>
           /\ p["ga4_sessions_delta_pct"] = R(-1)
           /\ p["ga4_conversions_delta_pct"] = R(-1)
           /\ score_rules(p, settings).sessions_score = R(30)
    /\ ResultTagged(score_page(p, settings), "content_refresh")
    /\ score_page(p, settings).confidence = Rat(35, 100)
    /\ Emitted(url)

\* C30: a URL that occurs only in a previous-period aggregate, with a positive
\* previous value, is still merged and flagged: its record has no current
\* metric fields and a delta of exactly -1 for the metrics of that source,
\* score_page tags it content_refresh with a decline contribution of 30 per
\* declining source and confidence 0.35, and generate_action_items emits it as
\* an action item.
C30_PreviousOnlyFlagged ==
    Generated =>
        \A url \in PreviousOnlyUrls :
            GscWasPositive(url) \/ Ga4WasPositive(url) =>
                /\ Len(RecordsOf(url)) = 1
                /\ FlaggedAsLost(url, RecordsOf(url)[1])

\* the delta of a metric whose value went from previous to nothing
LostDelta(previous) == IF RLt(Zero, previous) THEN R(-1) ELSE None

\* the item of a record is returned unless the items are cut to max(1, limit)
\* and every item returned ranks at least as high
EmittedUnlessCut(url, res) ==
    \/ Emitted(url)
    \/ /\ Len(items) = (IF Limit >= 1 THEN Limit ELSE 1)
       /\ \A k \in DOMAIN items :
             \/ RLt(res.score, items[k].score)
             \/ /\ res.score = items[k].score
                /\ RLe(res.confidence, items[k].confidence)

\* what holds of the one record p of a URL of the previous period only
LostMetricByMetric(url, p) ==
    /\ DOMAIN p \subseteq NonCurrentFields
    /\ p["gsc_clicks_delta_pct"] = LostDelta(ValueIn(gsc_previous, url, "gsc_clicks"))
    /\ p["gsc_impressions_delta_pct"] =
           LostDelta(ValueIn(gsc_previous, url, "gsc_impressions"))
    /\ p["ga4_sessions_delta_pct"] =
           LostDelta(ValueIn(ga4_previous, url, "ga4_sessions"))
    /\ p["ga4_conversions_delta_pct"] =
           LostDelta(ValueIn(ga4_previous, url, "ga4_conversions"))
    /\ score_rules(p, settings).clicks_score =
           (IF RLt(Zero, ValueIn(gsc_previous, url, "gsc_clicks")) THEN R(30) ELSE Zero)
    /\ score_rules(p, settings).sessions_score =
           (IF RLt(Zero, ValueIn(ga4_previous, url, "ga4_sessions")) THEN R(30) ELSE Zero)
    /\ IF \/ RLt(Zero, ValueIn(gsc_previous, url, "gsc_clicks"))
          \/ RLt(Zero, ValueIn(ga4_previous, url, "ga4_sessions"))
       THEN /\ ResultTagged(score_page(p, settings), "content_refresh")
            /\ score_page(p, settings).confidence = Rat(35, 100)
            /\ RLe(R(30), score_page(p, settings).score)
            /\ EmittedUnlessCut(url, score_page(p, settings))
       ELSE ~ResultTagged(score_page(p, settings), "content_refresh")

\* C30 as it holds: every URL of the previous period only is merged into one
\* record without current metric fields; each of its four deltas is exactly -1
\* where the previous value of that metric is positive and None otherwise; the
\* clicks decline and the sessions decline contribute 30 each where previous
\* clicks, respectively previous sessions, were positive; the record is then
\* tagged content_refresh with confidence 0.35 and gets an action item, which
\* is returned unless the cut to max(1, limit) items leaves it out; with
\* neither positive it is not tagged content_refresh.
C30_PreviousOnlyFlaggedByMetric ==
    Generated =>
        \A url \in PreviousOnlyUrls :
            /\ Len(RecordsOf(url)) = 1
            /\ LostMetricByMetric(url, RecordsOf(url)[1])

\* a URL of the previous period only that lost both its clicks and its sessions
\* is returned as an item with score 60, next to another item
C30_Witness ==
    /\ Generated
    /\ Len(items) >= 2
    /\ \E url \in PreviousOnlyUrls :
          /\ RLt(Zero, ValueIn(gsc_previous, url, "gsc_clicks"))
          /\ RLt(Zero, ValueIn(ga4_previous, url, "ga4_sessions"))
          /\ \E k \in DOMAIN items :
                /\ items[k].url = url
                /\ items[k].score = R(60)
                /\ items[k].confidence = Rat(35, 100)
                /\ items[k].categories = <<"content_refresh">>

====
